---- MODULE Spec2Model ----
(***************************************************************************)
(* A model of the statement-resolution engine of WikidataMCP.              *)
(*                                                                         *)
(*   src/wikidata/utils.py     entities, claims, the snak parser, the      *)
(*                             batched label resolution                    *)
(*   src/wikidataMCP/utils.py  the chunked label fetch with a language     *)
(*                             fallback chain                              *)
(*                                                                         *)
(* Python objects are modelled by a heap: heap[a] is the WikidataEntity    *)
(* constructed a-th, and every reference to an entity is its address a.    *)
(* A Python list that several objects may share (the default argument of   *)
(* WikidataEntity.__init__) is a cell of `lists`.  Strings are strings:    *)
(* formatting is done with \o, parsing with SubSeq.                        *)
(***************************************************************************)
EXTENDS Integers, Sequences, FiniteSets, TLC

VARIABLES
    entity_ids,                  \* get_entities_with_claims: the argument
    raw_entities_data,           \* the "entities" object of the claims response
    heap,                        \* every WikidataEntity constructed so far
    lists,                       \* the claims lists, by list reference
    entities,                    \* the resolution table: id -> address
    result_entities_with_claims, \* the table that is returned: id -> address
    pc,                          \* position in the running function
    idx,                         \* index of the running for loop
    exc,                         \* the exception that left the function, or ""
    resolved_label_data,         \* what the label fetch returned
    label_requests,              \* the ids of each label request sent
    calls,                       \* log of the table lookups made one by one
    lang,                        \* wikidataMCP: the requested language
    answers                      \* what upstream answers to the label requests

VARIABLES
    qid,                         \* get_hierarchy_data: the argument
    max_depth,                   \* get_hierarchy_data: the argument
    qids,                        \* the frontier of the running level
    level,                       \* the running breadth-first level
    hierarchical_data,           \* the records written so far: id -> record
    label_data,                  \* the labels seen so far: id -> label
    triplets,                    \* what the triplet service holds: id -> entity
    fetch_log,                   \* the ids of every triplet request sent
    write_log,                   \* the ids whose record was written, in order
    rendered,                    \* hierarchy_to_json: its outcome
    tool,                        \* the tool or function that is called
    args,                        \* its arguments
    vector_enabled,              \* tools.py: VECTOR_ENABLED, set at import
    outcomes,                    \* the outcomes of the upstream calls it makes
    tool_result,                 \* what it returned, or the exception it let out
    suspended,                   \* the locals of the suspended get_entities_with_claims call
    running                      \* which of the two calls is running: 1, 2 (0: one call)

\* The state of get_hierarchy_data
hier == <<qid, max_depth, qids, level, hierarchical_data, label_data, triplets,
          fetch_log, write_log>>

\* The state of the functions of src/wikidataMCP besides the label fetch
\* The state of a tool call
call == <<tool, args, vector_enabled, outcomes, tool_result>>

\* The second get_entities_with_claims call of the process
pair == <<suspended, running>>

ext == <<hier, rendered, call, pair>>

vars == <<entity_ids, raw_entities_data, heap, lists, entities,
          result_entities_with_claims, pc, idx, exc, resolved_label_data,
          label_requests, calls, lang, answers, ext>>

-----------------------------------------------------------------------------
(* Strings *)

Digit(d) ==
    CASE d = 0 -> "0" [] d = 1 -> "1" [] d = 2 -> "2" [] d = 3 -> "3"
      [] d = 4 -> "4" [] d = 5 -> "5" [] d = 6 -> "6" [] d = 7 -> "7"
      [] d = 8 -> "8" [] d = 9 -> "9"

RECURSIVE NatToStr(_)
NatToStr(n) == IF n < 10 THEN Digit(n) ELSE NatToStr(n \div 10) \o Digit(n % 10)

\* The digits of n without its sign
MagnitudeStr(n) == NatToStr(IF n < 0 THEN -n ELSE n)

\* Python's str(int)
IntToStr(n) == IF n < 0 THEN "-" \o NatToStr(-n) ELSE NatToStr(n)

Char(s, i) == SubSeq(s, i, i)

IsDigit(c) == c \in {"0", "1", "2", "3", "4", "5", "6", "7", "8", "9"}

DigitVal(c) ==
    CASE c = "0" -> 0 [] c = "1" -> 1 [] c = "2" -> 2 [] c = "3" -> 3
      [] c = "4" -> 4 [] c = "5" -> 5 [] c = "6" -> 6 [] c = "7" -> 7
      [] c = "8" -> 8 [] c = "9" -> 9

\* Python's s.replace("+", "")
RECURSIVE RemovePlus(_)
RemovePlus(s) ==
    IF s = "" THEN ""
    ELSE (IF Char(s, 1) = "+" THEN "" ELSE Char(s, 1)) \o RemovePlus(Tail(s))

\* The number of leading decimal digits of s from position i on
RECURSIVE DigitRun(_, _)
DigitRun(s, i) ==
    IF i <= Len(s) /\ IsDigit(Char(s, i)) THEN 1 + DigitRun(s, i + 1) ELSE 0

-----------------------------------------------------------------------------
(* Python values *)

\* None, where an entity reference is expected (addresses start at 1)
None == 0

\* The one list object bound to the default argument claims=[] of
\* WikidataEntity.__init__; every entity constructed without claims holds it.
DefaultClaims == 0

\* A raw JSON value that is absent (dict.get returned None)
Missing == [k |-> "None"]

UNRESOLVED == "UNRESOLVED"

\* WikidataClaimRank
NORMAL == "NORMAL"
PREFERRED == "PREFERRED"
DEPRECATED == "DEPRECATED"

\* WikidataEntity.__init__(id, label, description, claims)
WikidataEntity(id, label, description, claims) ==
    [id |-> id, label |-> label, description |-> description, claims |-> claims]

\* dict[key] = value
DictSet(d, key, value) == (key :> value) @@ d

EmptyDict == <<>>

-----------------------------------------------------------------------------
(* The upstream wbgetentities endpoint (labels and descriptions).           *)
(* An answer is [ok, echo, ids, info]: ok is whether raise_for_status()     *)
(* passes; the "entities" object of the body holds the requested IDs when   *)
(* echo, and the IDs of `ids` (a redirect target, an ID nobody asked for);  *)
(* each of them with the entity body `info`.                                *)
(* An entity body is [has_labels, labels, has_descriptions, descriptions]:  *)
(* labels and descriptions map a language code to its entry, which is       *)
(* [has_value, value]: whether it has the key "value", and the string.      *)

Range(seq) == {seq[i] : i \in 1..Len(seq)}

wbgetentities(request_ids, answer) ==
    [ok |-> answer.ok,
     entities |-> [id \in (IF answer.echo THEN Range(request_ids) ELSE {})
                            \cup answer.ids |-> answer.info]]

\* The answer to the k-th request of a call
AnswerAt(upstream, k) == upstream[IF k <= Len(upstream) THEN k ELSE Len(upstream)]

-----------------------------------------------------------------------------
(* wikidata/utils.py: get_entities_labels_and_descriptions                  *)

MAX_ENTITIES_PER_REQUEST == 50

Min(a, b) == IF a <= b THEN a ELSE b

\* remaining_ids[:n]
Take(seq, n) == SubSeq(seq, 1, Min(n, Len(seq)))

\* The rest taken one place too far
DropOneMore(seq, n) == SubSeq(seq, Min(n + 1, Len(seq)) + 1, Len(seq))

\* remaining_ids[n:]
Drop(seq, n) == SubSeq(seq, Min(n, Len(seq)) + 1, Len(seq))

\* The distinct elements of seq, in the order of their first occurrence
FirstOccurrences(seq) ==
    LET first == {i \in 1..Len(seq) : \A j \in 1..(i - 1) : seq[j] # seq[i]}
    IN [k \in 1..Cardinality(first) |->
           seq[CHOOSE i \in first : Cardinality({j \in first : j <= i}) = k]]

Reverse(seq) == [i \in 1..Len(seq) |-> seq[Len(seq) + 1 - i]]

\* list(set(this_request_ids)): the distinct IDs, in the iteration order of a
\* set of strings, which the language leaves open.  set_order picks one of two
\* orders the hash table can produce.
ListOfSet(seq, set_order) ==
    IF set_order = "forward" THEN FirstOccurrences(seq)
    ELSE Reverse(FirstOccurrences(seq))

\* obj = data.get("en"), or data.get("mul") if that is None; then
\* obj["value"] if obj has the key, else what the attribute held before
\* (lines 173-177 for labels, 180-185 for descriptions)
en_or_mul(data, before) ==
    IF "en" \in DOMAIN data
    THEN (IF data["en"].has_value THEN data["en"].value ELSE before)
    ELSE IF "mul" \in DOMAIN data
    THEN (IF data["mul"].has_value THEN data["mul"].value ELSE before)
    ELSE before

\* The entity built from one entry of the response (lines 169-185)
labels_entity(entity_id, entity_info) ==
    WikidataEntity(
        entity_id,
        IF entity_info.has_labels THEN en_or_mul(entity_info.labels, entity_id)
        ELSE entity_id,
        IF entity_info.has_descriptions THEN en_or_mul(entity_info.descriptions, "")
        ELSE "",
        DefaultClaims)

\* The while loop (lines 150-185); k counts the requests
RECURSIVE labels_loop(_, _, _, _, _, _)
labels_loop(remaining_ids, upstream, set_order, k, result_list, requests) ==
    IF Len(remaining_ids) = 0
    THEN [exc |-> "", result |-> result_list, requests |-> requests]
    ELSE LET this_request_ids == Take(remaining_ids, MAX_ENTITIES_PER_REQUEST)
             rest == Drop(remaining_ids, MAX_ENTITIES_PER_REQUEST)
             ids_param == ListOfSet(this_request_ids, set_order)
             response == wbgetentities(ids_param, AnswerAt(upstream, k))
             sent == Append(requests, ids_param)
         IN IF ~response.ok
            THEN [exc |-> "RequestException", result |-> result_list, requests |-> sent]
            ELSE IF DOMAIN response.entities = {}
            THEN [exc |-> "ValueError", result |-> result_list, requests |-> sent]
            ELSE labels_loop(rest, upstream, set_order, k + 1,
                     [id \in DOMAIN result_list \cup DOMAIN response.entities |->
                        IF id \in DOMAIN response.entities
                        THEN labels_entity(id, response.entities[id])
                        ELSE result_list[id]],
                     sent)

get_entities_labels_and_descriptions(ids, upstream, set_order) ==
    IF Len(ids) = 0
    THEN [exc |-> "ValueError", result |-> EmptyDict, requests |-> <<>>]
    ELSE labels_loop(ids, upstream, set_order, 1, EmptyDict, <<>>)

-----------------------------------------------------------------------------
(* wikidataMCP/utils.py: get_lang_specific and                              *)
(* get_entities_labels_and_descriptions                                     *)

\* The value of the first language of langs that data has, empty or not
RECURSIVE get_lang_present(_, _)
get_lang_present(data, langs) ==
    IF langs = <<>> THEN ""
    ELSE IF Head(langs) \in DOMAIN data
    THEN (IF data[Head(langs)].has_value THEN data[Head(langs)].value ELSE "")
    ELSE get_lang_present(data, Tail(langs))

\* The first data[lang].get('value') that is truthy, else '' (lines 168-173)
RECURSIVE get_lang_specific(_, _)
get_lang_specific(data, langs) ==
    IF langs = <<>> THEN ""
    ELSE IF /\ Head(langs) \in DOMAIN data
            /\ data[Head(langs)].has_value
            /\ data[Head(langs)].value # ""
    THEN data[Head(langs)].value
    ELSE get_lang_specific(data, Tail(langs))

\* The step of range(0, len(ids), 50) and the width of ids[chunk_idx:chunk_idx+50]
ChunkSize == 50

\* The loop over the chunks (lines 193-211); k counts the requests, and
\* entities_data | chunk_data lets the later chunk win
RECURSIVE mcp_chunks_loop(_, _, _, _, _, _)
mcp_chunks_loop(ids, upstream, chunk_idx, k, entities_data, requests) ==
    IF chunk_idx >= Len(ids)
    THEN [exc |-> "", entities_data |-> entities_data, requests |-> requests]
    ELSE LET ids_chunk == Take(Drop(ids, chunk_idx), ChunkSize)
             response == wbgetentities(ids_chunk, AnswerAt(upstream, k))
             sent == Append(requests, ids_chunk)
         IN IF ~response.ok
            THEN [exc |-> "RequestException", entities_data |-> entities_data,
                  requests |-> sent]
            ELSE mcp_chunks_loop(ids, upstream, chunk_idx + ChunkSize, k + 1,
                     [id \in DOMAIN entities_data \cup DOMAIN response.entities |->
                        IF id \in DOMAIN response.entities THEN response.entities[id]
                        ELSE entities_data[id]],
                     sent)

\* The dict comprehension (lines 213-222): val['labels'] and
\* val['descriptions'] raise KeyError for an entity that lacks them
mcp_entities_dict(fetched, language) ==
    IF fetched.exc # ""
    THEN [exc |-> fetched.exc, result |-> EmptyDict, requests |-> fetched.requests]
    ELSE IF \E id \in DOMAIN fetched.entities_data :
               \/ ~fetched.entities_data[id].has_labels
               \/ ~fetched.entities_data[id].has_descriptions
    THEN [exc |-> "KeyError", result |-> EmptyDict, requests |-> fetched.requests]
    ELSE [exc |-> "",
          result |-> [id \in DOMAIN fetched.entities_data |->
                        [label |-> get_lang_specific(
                                       fetched.entities_data[id].labels,
                                       <<language, "mul", "en">>),
                         description |-> get_lang_specific(
                                       fetched.entities_data[id].descriptions,
                                       <<language, "mul", "en">>)]],
          requests |-> fetched.requests]

mcp_get_entities_labels_and_descriptions(ids, language, upstream) ==
    IF Len(ids) = 0
    THEN [exc |-> "", result |-> EmptyDict, requests |-> <<>>]
    ELSE mcp_entities_dict(mcp_chunks_loop(ids, upstream, 0, 1, EmptyDict, <<>>),
                           language)

-----------------------------------------------------------------------------
(* wikidata/utils.py: _time_to_text                                         *)
(* A time payload is [k |-> "time", keys, time, precision, calendarmodel];  *)
(* keys is the set of keys the JSON object has.                             *)

Abs(n) == IF n < 0 THEN -n ELSE n

\* Python's  sub in s
RECURSIVE ContainsFrom(_, _, _)
ContainsFrom(s, sub, i) ==
    IF i + Len(sub) - 1 > Len(s) THEN FALSE
    ELSE SubSeq(s, i, i + Len(sub) - 1) = sub \/ ContainsFrom(s, sub, i + 1)

Contains(s, sub) == ContainsFrom(s, sub, 1)

\* int(s) of a string of decimal digits
RECURSIVE ParseNat(_)
ParseNat(s) ==
    IF s = "" THEN 0
    ELSE 10 * ParseNat(SubSeq(s, 1, Len(s) - 1)) + DigitVal(Char(s, Len(s)))

TwoDigitsAt(s, i) == i + 1 <= Len(s) /\ IsDigit(Char(s, i)) /\ IsDigit(Char(s, i + 1))

CharAtIs(s, i, c) == i <= Len(s) /\ Char(s, i) = c

\* re.match(r'([+-])(\d{1,16})-(\d{2})-(\d{2})T(\d{2}):(\d{2}):(\d{2})Z', s):
\* the groups, or matched = FALSE.  n is the length of the year's digit run:
\* the year group must end where the run ends, since a "-" has to follow.
time_match(s) ==
    LET n == DigitRun(s, 2)
        p == 2 + n
        matched ==
            /\ Len(s) >= 1
            /\ Char(s, 1) \in {"+", "-"}
            /\ n >= 1
            /\ n <= 16
            /\ CharAtIs(s, p, "-")
            /\ TwoDigitsAt(s, p + 1)
            /\ CharAtIs(s, p + 3, "-")
            /\ TwoDigitsAt(s, p + 4)
            /\ CharAtIs(s, p + 6, "T")
            /\ TwoDigitsAt(s, p + 7)
            /\ CharAtIs(s, p + 9, ":")
            /\ TwoDigitsAt(s, p + 10)
            /\ CharAtIs(s, p + 12, ":")
            /\ TwoDigitsAt(s, p + 13)
            /\ CharAtIs(s, p + 15, "Z")
    IN IF ~matched THEN [matched |-> FALSE]
       ELSE [matched |-> TRUE,
             sign |-> Char(s, 1),
             year_str |-> SubSeq(s, 2, p - 1),
             month_str |-> SubSeq(s, p + 1, p + 2),
             day_str |-> SubSeq(s, p + 4, p + 5),
             hour_str |-> SubSeq(s, p + 7, p + 8),
             minute_str |-> SubSeq(s, p + 10, p + 11),
             second_str |-> SubSeq(s, p + 13, p + 14)]

\* datetime.date: the proleptic Gregorian calendar
IsLeap(y) == (y % 4 = 0) /\ ((y % 100 # 0) \/ (y % 400 = 0))

DaysInMonth(y, m) ==
    IF m = 2 THEN (IF IsLeap(y) THEN 29 ELSE 28)
    ELSE IF m \in {4, 6, 9, 11} THEN 30 ELSE 31

MINYEAR == 1
MAXYEAR == 9999

\* date(year, month, day) raises ValueError unless this holds
ValidDate(y, m, d) ==
    /\ y >= MINYEAR /\ y <= MAXYEAR
    /\ m >= 1 /\ m <= 12
    /\ d >= 1 /\ d <= DaysInMonth(y, m)

\* datetime(1582, 10, 15).toordinal() - datetime(1582, 10, 5).toordinal()
CutoverDays == 10

\* date.fromordinal(date(y, m, d).toordinal() + n) for 0 <= n <= 28; a year
\* above MAXYEAR makes fromordinal raise ValueError
AddDays(y, m, d, n) ==
    IF d + n <= DaysInMonth(y, m) THEN [year |-> y, month |-> m, day |-> d + n]
    ELSE IF m < 12 THEN [year |-> y, month |-> m + 1, day |-> d + n - DaysInMonth(y, m)]
    ELSE [year |-> y + 1, month |-> 1, day |-> d + n - DaysInMonth(y, m)]

JULIAN == "Q1985786"
DEFAULT_CALENDARMODEL == "http://www.wikidata.org/entity/Q1985786"

months == <<"Jan", "Feb", "Mar", "Apr", "May", "Jun",
            "Jul", "Aug", "Sep", "Oct", "Nov", "Dec">>

\* 10 ** e
RECURSIVE Pow10(_)
Pow10(e) == IF e = 0 THEN 1 ELSE 10 * Pow10(e - 1)

\* The precision branches (lines 395-439), entered with month in 1..12
time_render(year, month, day, hour_str, minute_str, second_str, precision) ==
    LET month_str == months[month]
        era == IF year > 0 THEN "AD" ELSE "BC"
        y == IntToStr(year)
        d == IntToStr(day)
        Text(t) == [exc |-> "", text |-> t]
        Scaled(e, words) ==
            Text(IntToStr(Abs(year) \div Pow10(e)) \o " " \o words \o " " \o era)
    IN CASE precision = 14 ->
              Text(y \o " " \o month_str \o " " \o d \o " " \o hour_str \o ":"
                     \o minute_str \o ":" \o second_str)
         [] precision = 13 ->
              Text(y \o " " \o month_str \o " " \o d \o " " \o hour_str \o ":"
                     \o minute_str)
         [] precision = 12 ->
              Text(y \o " " \o month_str \o " " \o d \o " " \o hour_str \o ":00")
         [] precision = 11 -> Text(d \o " " \o month_str \o " " \o y)
         [] precision = 10 -> Text(month_str \o " " \o y)
         [] precision = 9 -> Text(IntToStr(Abs(year)) \o " " \o era)
         [] precision = 8 ->
              Text(IntToStr(Abs((year \div 10) * 10)) \o "s " \o era)
         [] precision = 7 ->
              Text(IntToStr((Abs(year) - 1) \div 100 + 1) \o "th century " \o era)
         [] precision = 6 ->
              Text(IntToStr((Abs(year) - 1) \div 1000 + 1) \o "th millennium " \o era)
         [] precision = 5 -> Scaled(4, "ten thousand years")
         [] precision = 4 -> Scaled(5, "hundred thousand years")
         [] precision = 3 -> Scaled(6, "million years")
         [] precision = 2 -> Scaled(7, "tens of millions of years")
         [] precision = 1 -> Scaled(8, "hundred million years")
         [] precision = 0 -> Scaled(9, "billion years")
         [] OTHER -> [exc |-> "ValueError", text |-> ""]

_time_to_text(time_data) ==
    LET Raise(e) == [exc |-> e, text |-> ""]
    IN IF "time" \notin time_data.keys \/ "precision" \notin time_data.keys
       THEN Raise("KeyError")
       ELSE
       LET calendarmodel == IF "calendarmodel" \in time_data.keys
                            THEN time_data.calendarmodel ELSE DEFAULT_CALENDARMODEL
           match == time_match(time_data.time)
       IN IF ~match.matched THEN Raise("ValueError")
          ELSE
          LET year == ParseNat(match.year_str) * (IF match.sign = "+" THEN 1 ELSE -1)
              m0 == IF match.month_str = "00" THEN 1 ELSE ParseNat(match.month_str)
              d0 == IF match.day_str = "00" THEN 1 ELSE ParseNat(match.day_str)
              julian == /\ Contains(calendarmodel, JULIAN)
                        /\ year > 1
                        /\ Len(IntToStr(Abs(year))) <= 4
          IN IF julian
             THEN IF ~ValidDate(year, m0, d0) THEN Raise("ValueError")
                  ELSE LET g == AddDays(year, m0, d0, CutoverDays)
                       IN IF g.year > MAXYEAR THEN Raise("ValueError")
                          ELSE time_render(g.year, g.month, g.day, match.hour_str,
                                   match.minute_str, match.second_str,
                                   time_data.precision)
             ELSE IF m0 > 12 THEN Raise("IndexError")
                  ELSE time_render(year, m0, d0, match.hour_str, match.minute_str,
                           match.second_str, time_data.precision)

-----------------------------------------------------------------------------
(* wikidata/utils.py: __str__ of the dataclasses                            *)
(* A qualifier is [property, valueEntity, valueString]; a claim is          *)
(* [subject, property, valueEntity, valueString, rank, has_qualifiers,      *)
(* qualifiers]; has_qualifiers = FALSE stands for qualifiers = None.        *)

LabelAndId(e) ==
    IF Len(e.label) > 0 THEN e.label \o " (" \o e.id \o ")" ELSE e.id

WikidataQualifier_str(q, h) ==
    LabelAndId(h[q.property]) \o " "
      \o (IF q.valueEntity # None THEN LabelAndId(h[q.valueEntity]) ELSE q.valueString)

RECURSIVE QualifiersText(_, _)
QualifiersText(qs, h) ==
    IF qs = <<>> THEN ""
    ELSE ", " \o WikidataQualifier_str(Head(qs), h) \o QualifiersText(Tail(qs), h)

WikidataClaim_str(c, h) ==
    (IF c.rank = DEPRECATED THEN "(deprecated) "
     ELSE IF c.rank = PREFERRED THEN "(preferred) " ELSE "")
      \o LabelAndId(h[c.subject]) \o " "
      \o (IF Len(h[c.property].label) > 0
          THEN h[c.property].label \o " (" \o h[c.property].id \o "): "
          ELSE h[c.property].id \o ": ")
      \o (IF c.valueEntity # None THEN LabelAndId(h[c.valueEntity]) ELSE c.valueString)
      \o (IF c.has_qualifiers THEN QualifiersText(c.qualifiers, h) ELSE "")

RECURSIVE ClaimsText(_, _)
ClaimsText(cs, h) ==
    IF cs = <<>> THEN ""
    ELSE "\n" \o WikidataClaim_str(Head(cs), h) \o ClaimsText(Tail(cs), h)

\* e is an entity record, on the heap or not; ls are the claims lists
WikidataEntity_str(e, h, ls) ==
    e.id
      \o (IF Len(e.label) > 0 THEN ": " \o e.label ELSE "")
      \o (IF Len(e.description) > 0 THEN " (" \o e.description \o ")" ELSE "")
      \o ClaimsText(ls[e.claims], h)

-----------------------------------------------------------------------------
(* wikidata/utils.py: _quantity_to_text, _globalcoordinate_to_text          *)

ENTITY_URI == "http://www.wikidata.org/entity/"

\* re.search(r"http://www\.wikidata\.org/entity/(Q\d+)", unit_url): group 1 of
\* the leftmost match, or "" when there is none
RECURSIVE unit_search(_, _)
unit_search(unit_url, i) ==
    LET q == i + Len(ENTITY_URI)
    IN IF q > Len(unit_url) THEN ""
       ELSE IF /\ SubSeq(unit_url, i, q - 1) = ENTITY_URI
               /\ Char(unit_url, q) = "Q"
               /\ DigitRun(unit_url, q + 1) >= 1
            THEN SubSeq(unit_url, q, q + DigitRun(unit_url, q + 1))
            ELSE unit_search(unit_url, i + 1)

\* Lines 460-466, with the result of the label request
quantity_with_unit(quantity_string, unit_entity_id, fetched, st) ==
    IF fetched.exc # "" THEN [exc |-> fetched.exc, text |-> ""]
    ELSE IF unit_entity_id \notin DOMAIN fetched.result
    THEN [exc |-> "KeyError", text |-> ""]
    ELSE [exc |-> "",
          text |-> quantity_string \o " "
              \o fetched.result[unit_entity_id].label \o " ("
              \o WikidataEntity_str(fetched.result[unit_entity_id], st.heap, st.lists)
              \o ")"]

\* value is [k |-> "quantity", keys, amount, unit]; unit_upstream answers the
\* label request of the unit; st is the parser state (its heap and lists are
\* what str(unit_entity) reads)
_quantity_to_text(value, st, unit_upstream) ==
    IF "amount" \notin value.keys \/ "unit" \notin value.keys
    THEN [exc |-> "KeyError", text |-> ""]
    ELSE IF unit_search(value.unit, 1) = ""
    THEN [exc |-> "", text |-> RemovePlus(value.amount)]
    ELSE quantity_with_unit(
             RemovePlus(value.amount),
             unit_search(value.unit, 1),
             get_entities_labels_and_descriptions(
                 <<unit_search(value.unit, 1)>>, <<unit_upstream>>, "forward"),
             st)

\* One coordinate in degrees, minutes and seconds.  v is the coordinate in
\* tenths of an arc second (degrees * 36000), so that the float arithmetic of
\* the source is exact integer arithmetic here.
dms(v, positive, negative) ==
    LET a == Abs(v)
        degrees == a \div 36000
        minutes == (a % 36000) \div 600
        tenths == a % 600
        seconds_str == IntToStr(tenths \div 10)
            \o (IF tenths % 10 = 0 THEN "" ELSE "." \o Digit(tenths % 10))
    IN IntToStr(degrees) \o "°" \o IntToStr(minutes) \o "'" \o seconds_str \o "\""
         \o (IF v >= 0 THEN positive ELSE negative)

\* value is [k |-> "coordinate", keys, latitude, longitude]
_globalcoordinate_to_text(coor_data) ==
    IF "latitude" \notin coor_data.keys \/ "longitude" \notin coor_data.keys
    THEN [exc |-> "KeyError", text |-> ""]
    ELSE [exc |-> "",
          text |-> dms(coor_data.latitude, "N", "S") \o ", "
                     \o dms(coor_data.longitude, "E", "W")]

-----------------------------------------------------------------------------
(* wikidata/utils.py: the parser                                            *)
(* The parser state st is [heap, entities, lists]: the objects, the table   *)
(* shared by the whole parse, and the claims lists.  A snak is              *)
(* [datatype, value]; value = Missing when the snak has no datavalue.       *)
(* A statement is [rank, mainsnak, qualifiers]; qualifiers is the sequence  *)
(* of the items [pid, snaks] of the "qualifiers" dict, in its order.        *)

\* A placeholder that shows its ID until it is resolved, as the entities of
\* the label fetch do
NamedPlaceholder(entity_id) ==
    WikidataEntity(entity_id, entity_id, "", DefaultClaims)

\* The constructor call WikidataEntity(id=..., label="UNRESOLVED",
\* description="UNRESOLVED"), which leaves claims to its default
NewPlaceholder(entity_id) ==
    WikidataEntity(entity_id, UNRESOLVED, UNRESOLVED, DefaultClaims)

\* The lookup without its membership test
always_create_unresolved_entity(entity_id, st) ==
    [st |-> [st EXCEPT !.heap = Append(@, NewPlaceholder(entity_id)),
                       !.entities = DictSet(@, entity_id, Len(st.heap) + 1)],
     entity |-> Len(st.heap) + 1]

_get_or_create_unresolved_entity(entity_id, st) ==
    IF entity_id \notin DOMAIN st.entities
    THEN LET a == Len(st.heap) + 1
         IN [st |-> [st EXCEPT !.heap = Append(@, NewPlaceholder(entity_id)),
                               !.entities = DictSet(@, entity_id, a)],
             entity |-> a]
    ELSE [st |-> st, entity |-> st.entities[entity_id]]

\* The entity branch with a placeholder of its own for every value
snak_entity_fresh(value_id, st) ==
    [st |-> [st EXCEPT !.heap = Append(@, NewPlaceholder(value_id)),
                       !.entities = DictSet(@, value_id, Len(st.heap) + 1)],
     entity |-> Len(st.heap) + 1]

\* The entity branch that forgets to enter a new placeholder in the table
snak_entity_unregistered(value_id, st) ==
    IF value_id \notin DOMAIN st.entities
    THEN [st |-> [st EXCEPT !.heap = Append(@, NewPlaceholder(value_id))],
          entity |-> Len(st.heap) + 1]
    ELSE [st |-> st, entity |-> st.entities[value_id]]

\* Lines 194-206: the entity branch of _parse_snak_value
snak_entity(value_id, st) ==
    IF value_id \notin DOMAIN st.entities
    THEN LET a == Len(st.heap) + 1
         IN [st |-> [st EXCEPT !.heap = Append(@, NewPlaceholder(value_id)),
                               !.entities = DictSet(@, value_id, a)],
             entity |-> a]
    ELSE [st |-> st, entity |-> st.entities[value_id]]

\* The result of _parse_snak_value is [st, exc, is_entity, entity, text]: a
\* WikidataEntity (is_entity, its address in entity) or a str (text), or an
\* exception
SnakStr(st, t) ==
    [st |-> st, exc |-> "", is_entity |-> FALSE, entity |-> None, text |-> t]

SnakRaise(st, e) ==
    [st |-> st, exc |-> e, is_entity |-> FALSE, entity |-> None, text |-> ""]

SnakEntity(r) ==
    [st |-> r.st, exc |-> "", is_entity |-> TRUE, entity |-> r.entity, text |-> ""]

\* try: return <r>  except ValueError: return value["time"]  (lines 215-224)
try_or_time(r, value, st) ==
    IF r.exc = "" THEN SnakStr(st, r.text)
    ELSE IF r.exc = "ValueError"
    THEN (IF "time" \in value.keys THEN SnakStr(st, value.time)
          ELSE SnakRaise(st, "KeyError"))
    ELSE SnakRaise(st, r.exc)

\* try: return <r>  except ValueError: return f"{value}"  (lines 231-234)
try_or_repr(r, value, st) ==
    IF r.exc = "" THEN SnakStr(st, r.text)
    ELSE IF r.exc = "ValueError" THEN SnakStr(st, value.repr)
    ELSE SnakRaise(st, r.exc)

_parse_snak_value(datatype, value, st, unit_upstream) ==
    IF value = Missing THEN SnakStr(st, "<empty string>")
    ELSE IF datatype \in {"wikibase-property", "wikibase-item"}
    THEN SnakEntity(snak_entity(value.id, st))
    ELSE IF datatype = "string" THEN SnakStr(st, value.s)
    ELSE IF datatype = "monolingualtext"
    THEN SnakStr(st, (IF "text" \in value.keys THEN value.text ELSE "<empty string>")
                       \o " (language: "
                       \o (IF "language" \in value.keys THEN value.language ELSE "")
                       \o ")")
    ELSE IF datatype = "quantity"
    THEN try_or_time(_quantity_to_text(value, st, unit_upstream), value, st)
    ELSE IF datatype = "time"
    THEN try_or_time(_time_to_text(value), value, st)
    ELSE IF datatype \in {"wikibase-sense", "wikibase-lexeme", "wikibase-form",
                          "entity-schema"}
    THEN SnakStr(st, IF "id" \in value.keys THEN value.id ELSE "<empty string>")
    ELSE IF datatype = "globe-coordinate"
    THEN try_or_repr(_globalcoordinate_to_text(value), value, st)
    ELSE SnakStr(st, value.repr)

\* The (qualifier_prop_id, qualifier_statement_data) pairs in the order the
\* two nested loops of _parse_qualifiers visit them
RECURSIVE qualifier_items(_)
qualifier_items(qualifiers_data) ==
    IF qualifiers_data = <<>> THEN <<>>
    ELSE [i \in 1..Len(Head(qualifiers_data).snaks) |->
             [pid |-> Head(qualifiers_data).pid, snak |-> Head(qualifiers_data).snaks[i]]]
         \o qualifier_items(Tail(qualifiers_data))

\* Lines 268-286: the qualifier of one item, from its property entity and its
\* parsed value v
new_qualifier(property_entity, v) ==
    [property |-> property_entity,
     valueEntity |-> IF v.is_entity THEN v.entity ELSE None,
     valueString |-> IF v.is_entity THEN "" ELSE v.text]

\* The body of the inner loop, over the items left; p is the qualifier's
\* property (the result of the table lookup), v its parsed value
RECURSIVE qualifiers_loop(_, _, _, _)
RECURSIVE qualifiers_step(_, _, _, _, _)
qualifiers_step(items, p, v, parsed_qualifiers, unit_upstream) ==
    IF v.exc # ""
    THEN [st |-> v.st, exc |-> v.exc, qualifiers |-> parsed_qualifiers]
    ELSE qualifiers_loop(Tail(items), v.st,
                         Append(parsed_qualifiers, new_qualifier(p.entity, v)),
                         unit_upstream)

qualifiers_value(items, p, parsed_qualifiers, unit_upstream) ==
    qualifiers_step(items, p,
                    _parse_snak_value(Head(items).snak.datatype,
                                      Head(items).snak.value, p.st, unit_upstream),
                    parsed_qualifiers, unit_upstream)

qualifiers_loop(items, st, parsed_qualifiers, unit_upstream) ==
    IF items = <<>> THEN [st |-> st, exc |-> "", qualifiers |-> parsed_qualifiers]
    ELSE qualifiers_value(items,
                          _get_or_create_unresolved_entity(Head(items).pid, st),
                          parsed_qualifiers, unit_upstream)

_parse_qualifiers(qualifiers_data, st, unit_upstream) ==
    qualifiers_loop(qualifier_items(qualifiers_data), st, <<>>, unit_upstream)

\* statement_data.get("rank") to WikidataClaimRank (lines 303-307)
claim_rank(rank) ==
    IF rank = "deprecated" THEN DEPRECATED
    ELSE IF rank = "preferred" THEN PREFERRED
    ELSE NORMAL

\* Lines 296-326: the claim, from its parsed main value v and its parsed
\* qualifiers q
new_claim(statement_data, subject_entity, property_entity, v, q) ==
    [st |-> q.st,
     exc |-> q.exc,
     claim |-> [subject |-> subject_entity,
                property |-> property_entity,
                valueEntity |-> IF v.is_entity THEN v.entity ELSE None,
                valueString |-> IF v.is_entity THEN "" ELSE v.text,
                rank |-> claim_rank(statement_data.rank),
                has_qualifiers |-> statement_data.qualifiers # <<>>,
                qualifiers |-> q.qualifiers]]

claim_qualifiers(statement_data, subject_entity, property_entity, v, unit_upstream) ==
    new_claim(statement_data, subject_entity, property_entity, v,
              IF v.exc = "" /\ statement_data.qualifiers # <<>>
              THEN _parse_qualifiers(statement_data.qualifiers, v.st, unit_upstream)
              ELSE [st |-> v.st, exc |-> v.exc, qualifiers |-> <<>>])

_parse_claim(statement_data, subject_entity, property_entity, st, unit_upstream) ==
    claim_qualifiers(statement_data, subject_entity, property_entity,
                     _parse_snak_value(statement_data.mainsnak.datatype,
                                       statement_data.mainsnak.value, st,
                                       unit_upstream),
                     unit_upstream)

\* The append that leaves deprecated claims out
append_unless_deprecated(st, subject_entity, claim) ==
    IF claim.rank = DEPRECATED THEN st
    ELSE [st EXCEPT !.lists[st.heap[subject_entity].claims] = Append(@, claim)]

\* current_subject_entity_with_claims.claims.append(claim)
append_claim(st, subject_entity, claim) ==
    [st EXCEPT !.lists[st.heap[subject_entity].claims] = Append(@, claim)]

\* The inner loop of _parse_entity, over the statements left of one group; c is
\* the parsed claim of the first of them
RECURSIVE statements_loop(_, _, _, _, _)
statements_step(statements, subject_entity, property_entity, c, unit_upstream) ==
    IF c.exc # "" THEN [st |-> c.st, exc |-> c.exc]
    ELSE statements_loop(Tail(statements), subject_entity, property_entity,
                         append_claim(c.st, subject_entity, c.claim), unit_upstream)

statements_loop(statements, subject_entity, property_entity, st, unit_upstream) ==
    IF statements = <<>> THEN [st |-> st, exc |-> ""]
    ELSE statements_step(statements, subject_entity, property_entity,
                         _parse_claim(Head(statements), subject_entity,
                                      property_entity, st, unit_upstream),
                         unit_upstream)

\* The outer loop, over the statement groups [prop_id, statements] left; p is
\* the property of the first group (the result of the table lookup), r the
\* outcome of its statements
RECURSIVE groups_loop(_, _, _, _)
groups_step(statement_groups, subject_entity, r, unit_upstream) ==
    IF r.exc # "" THEN r
    ELSE groups_loop(Tail(statement_groups), subject_entity, r.st, unit_upstream)

groups_statements(statement_groups, subject_entity, p, unit_upstream) ==
    groups_step(statement_groups, subject_entity,
                statements_loop(Head(statement_groups).statements, subject_entity,
                                p.entity, p.st, unit_upstream),
                unit_upstream)

groups_loop(statement_groups, subject_entity, st, unit_upstream) ==
    IF statement_groups = <<>> THEN [st |-> st, exc |-> ""]
    ELSE groups_statements(statement_groups, subject_entity,
             _get_or_create_unresolved_entity(Head(statement_groups).prop_id, st),
             unit_upstream)

\* raw_claims is raw_entity_item_data.get("claims", {}), as the sequence of its
\* items
_parse_entity(current_subject_entity_with_claims, raw_claims, st, unit_upstream) ==
    groups_loop(raw_claims, current_subject_entity_with_claims, st, unit_upstream)

-----------------------------------------------------------------------------
(* Inputs: the requests and the upstream data the model runs on             *)

MaxIds == 2          \* length of entity_ids
MaxStatements == 2   \* statements of the first requested entity

BoundedSeq(S, n) == UNION {[1..k -> S] : k \in 0..n}

RequestedIds == {"Q1", "Q2"}

GREGORIAN_URI == "http://www.wikidata.org/entity/Q1985727"
METRE_URI == "http://www.wikidata.org/entity/Q11573"

EntityValue(id) == [k |-> "entity", keys |-> {"id"}, id |-> id]
ItemSnak(id) == [datatype |-> "wikibase-item", value |-> EntityValue(id)]
PropertySnak(id) == [datatype |-> "wikibase-property", value |-> EntityValue(id)]
NoValueSnak == [datatype |-> "wikibase-item", value |-> Missing]
StringSnak == [datatype |-> "string", value |-> [k |-> "str", s |-> "42"]]
QuantitySnak(keys, amount, unit) ==
    [datatype |-> "quantity",
     value |-> [k |-> "quantity", keys |-> keys, amount |-> amount, unit |-> unit]]
TimeSnak(keys, time, precision, calendarmodel) ==
    [datatype |-> "time",
     value |-> [k |-> "time", keys |-> keys, time |-> time, precision |-> precision,
                calendarmodel |-> calendarmodel]]

AllTimeKeys == {"time", "precision", "calendarmodel"}

MetreQuantity == QuantitySnak({"amount", "unit"}, "+5", METRE_URI)
PlainQuantity == QuantitySnak({"amount", "unit"}, "-3", "1")
NoAmountQuantity == QuantitySnak({"unit"}, "", "1")
YearTime == TimeSnak(AllTimeKeys, "+1979-00-00T00:00:00Z", 9, GREGORIAN_URI)
MalformedTime == TimeSnak(AllTimeKeys, "1979", 9, GREGORIAN_URI)
Month13Time == TimeSnak(AllTimeKeys, "+2000-13-01T00:00:00Z", 11, GREGORIAN_URI)

MainSnaks ==
    {ItemSnak("Q2"), PropertySnak("P1"), NoValueSnak, StringSnak,
     MetreQuantity, NoAmountQuantity, MalformedTime, Month13Time}

QualifierPool ==
    {<<[pid |-> "P4", snaks |-> <<StringSnak, ItemSnak("Q2")>>],
       [pid |-> "P1", snaks |-> <<PropertySnak("P4")>>]>>,
     <<[pid |-> "P4", snaks |-> <<YearTime, PlainQuantity, MetreQuantity>>]>>}

Ranks == {"normal", "preferred", "deprecated", ""}

Statement(rank, mainsnak, qualifiers) ==
    [rank |-> rank, mainsnak |-> mainsnak, qualifiers |-> qualifiers]

StatementPool ==
    {Statement(r, ItemSnak("Q2"), <<>>) : r \in Ranks}
      \cup {Statement("normal", v, <<>>) : v \in MainSnaks}
      \cup {Statement("normal", ItemSnak("Q3"), q) : q \in QualifierPool}

PropertyId(i) == "P" \o NatToStr(i)

\* The "claims" object of an entity with the statements stmts: all of them
\* values of P1, or the i-th the one value of property Pi
ClaimsOf(stmts, layout) ==
    IF stmts = <<>> THEN <<>>
    ELSE IF layout = "one" THEN <<[prop_id |-> "P1", statements |-> stmts]>>
    ELSE [i \in 1..Len(stmts) |-> [prop_id |-> PropertyId(i), statements |-> <<stmts[i]>>]]

RichClaims ==
    {ClaimsOf(stmts, layout) :
        stmts \in BoundedSeq(StatementPool, MaxStatements), layout \in {"one", "each"}}

PlainClaims ==
    {<<>>,
     ClaimsOf(<<Statement("normal", ItemSnak("Q1"), <<>>)>>, "one"),
     ClaimsOf(<<Statement("deprecated", MetreQuantity, <<>>),
                Statement("normal", ItemSnak("Q3"), <<>>)>>, "each")}

\* The first requested ID has any claims of RichClaims, the others of PlainClaims
RawData(ids) ==
    {[id \in Range(ids) |-> IF id = ids[1] THEN rich ELSE plain] :
        rich \in RichClaims, plain \in PlainClaims}

\* Entity bodies of the label response
Entry(v) == [has_value |-> TRUE, value |-> v]
FullInfo ==
    [has_labels |-> TRUE, labels |-> [l \in {"en", "mul"} |-> Entry("label-" \o l)],
     has_descriptions |-> TRUE,
     descriptions |-> [l \in {"en"} |-> Entry("description-" \o l)]]
MulInfo ==
    [has_labels |-> TRUE, labels |-> [l \in {"mul"} |-> Entry("label-" \o l)],
     has_descriptions |-> TRUE, descriptions |-> EmptyDict]
BareInfo ==
    [has_labels |-> FALSE, labels |-> EmptyDict,
     has_descriptions |-> FALSE, descriptions |-> EmptyDict]

Infos == {FullInfo, MulInfo, BareInfo}

\* An ID no request of the model asks for (a redirect target)
ForeignId == "Q999"

Answer(ok, echo, ids, info) == [ok |-> ok, echo |-> echo, ids |-> ids, info |-> info]

\* What upstream may answer to the one label request for a unit
UnitAnswers ==
    {Answer(FALSE, FALSE, {}, BareInfo), Answer(TRUE, FALSE, {}, BareInfo),
     Answer(TRUE, FALSE, {ForeignId}, FullInfo)}
      \cup {Answer(TRUE, TRUE, {}, info) : info \in Infos}

\* Nothing, everything, one element, all but one element of S
SomeSubsets(S) == {{}, S} \cup {{x} : x \in S} \cup {S \ {x} : x \in S}

\* What upstream may answer to the label request for the IDs of the table
TableAnswers(ids) ==
    {Answer(FALSE, FALSE, {}, BareInfo)}
      \cup {Answer(TRUE, FALSE, S, FullInfo) : S \in SomeSubsets(ids)}
      \cup {Answer(TRUE, FALSE, ids, info) : info \in Infos}
      \cup {Answer(TRUE, FALSE, S \cup {ForeignId}, FullInfo) : S \in {{}, ids}}

-----------------------------------------------------------------------------
(* wikidata/utils.py: get_entities_with_claims, one action per step         *)

\* No hierarchy is being fetched
HierIdle ==
    /\ qid = ""
    /\ max_depth = 0
    /\ qids = <<>>
    /\ level = 0
    /\ hierarchical_data = <<>>
    /\ label_data = <<>>
    /\ triplets = <<>>
    /\ fetch_log = <<>>
    /\ write_log = <<>>

\* Nothing runs but the label engine
\* No tool is called
CallIdle ==
    /\ tool = ""
    /\ args = <<>>
    /\ vector_enabled = FALSE
    /\ outcomes = <<>>
    /\ tool_result = <<>>

\* One get_entities_with_claims call at most
PairIdle == suspended = <<>> /\ running = 0

ExtIdle == HierIdle /\ rendered = <<>> /\ CallIdle /\ PairIdle

EmptyLists == (DefaultClaims :> <<>>)

\* list(entities.keys()).  The keys are listed by address; the order is
\* immaterial, since the fetch sends list(set(...)) of them.
RECURSIVE KeysList(_)
KeysList(table) ==
    IF DOMAIN table = {} THEN <<>>
    ELSE LET first == CHOOSE key \in DOMAIN table :
                          \A other \in DOMAIN table : table[key] <= table[other]
         IN <<first>> \o KeysList([key \in DOMAIN table \ {first} |-> table[key]])

raw_claims_of(entity_id) ==
    IF entity_id \in DOMAIN raw_entities_data THEN raw_entities_data[entity_id]
    ELSE <<>>

Init ==
    /\ ExtIdle
    /\ entity_ids \in BoundedSeq(RequestedIds, MaxIds)
    /\ raw_entities_data \in RawData(entity_ids)
    /\ heap = <<>>
    /\ lists = EmptyLists
    /\ entities = EmptyDict
    /\ result_entities_with_claims = EmptyDict
    /\ pc = "start"
    /\ idx = 1
    /\ exc = ""
    /\ resolved_label_data = EmptyDict
    /\ label_requests = <<>>
    /\ calls = <<>>
    /\ lang = "en"
    /\ answers = <<>>

\* Lines 506-507: if not entity_ids: return {}
ReturnEmpty ==
    /\ pc = "start"
    /\ entity_ids = <<>>
    /\ pc' = "done"
    /\ UNCHANGED <<entity_ids, raw_entities_data, heap, lists, entities,
                   result_entities_with_claims, idx, exc, resolved_label_data,
                   label_requests, calls, lang, answers, ext>>

\* Lines 509-522: the claims request; raise_for_status() passes or raises
FetchClaims ==
    /\ pc = "start"
    /\ entity_ids # <<>>
    /\ \E ok \in BOOLEAN :
          IF ok THEN pc' = "init" /\ exc' = exc
          ELSE pc' = "raised" /\ exc' = "RequestException"
    /\ UNCHANGED <<entity_ids, raw_entities_data, heap, lists, entities,
                   result_entities_with_claims, idx, resolved_label_data,
                   label_requests, calls, lang, answers, ext>>

\* Lines 525-533: one iteration of the loop that makes the placeholders, each
\* with a claims list of its own (claims=[])
InitPlaceholder ==
    /\ pc = "init"
    /\ LET entity_id == entity_ids[idx]
           a == Len(heap) + 1
       IN /\ heap' = Append(heap, WikidataEntity(entity_id, UNRESOLVED, UNRESOLVED, a))
          /\ lists' = DictSet(lists, a, <<>>)
          /\ result_entities_with_claims' =
                 DictSet(result_entities_with_claims, entity_id, a)
          /\ entities' = DictSet(entities, entity_id, a)
    /\ IF idx < Len(entity_ids) THEN idx' = idx + 1 /\ pc' = pc
       ELSE idx' = 1 /\ pc' = "parse"
    /\ UNCHANGED <<entity_ids, raw_entities_data, exc, resolved_label_data,
                   label_requests, calls, lang, answers, ext>>

\* Lines 537-544: one iteration of the parse loop, a whole _parse_entity call
\* with the outcome r
Parsed(r) ==
    /\ heap' = r.st.heap
    /\ entities' = r.st.entities
    /\ lists' = r.st.lists
    /\ IF r.exc # "" THEN pc' = "raised" /\ exc' = r.exc /\ idx' = idx
       ELSE IF idx < Len(entity_ids)
       THEN pc' = pc /\ exc' = exc /\ idx' = idx + 1
       ELSE pc' = "resolve" /\ exc' = exc /\ idx' = 1

ParseEntity ==
    /\ pc = "parse"
    /\ \E unit_upstream \in UnitAnswers :
          Parsed(_parse_entity(result_entities_with_claims[entity_ids[idx]],
                               raw_claims_of(entity_ids[idx]),
                               [heap |-> heap, entities |-> entities, lists |-> lists],
                               unit_upstream))
    /\ UNCHANGED <<entity_ids, raw_entities_data, result_entities_with_claims,
                   resolved_label_data, label_requests, calls, lang, answers, ext>>

\* A resolution step that writes the labels to every entity of the process
\* with the ID, as a table shared by the calls would
update_labels_by_id(h, table, resolved, done) ==
    [a \in 1..Len(h) |->
        IF h[a].id \in done
        THEN [h[a] EXCEPT !.label = resolved[h[a].id].label,
                          !.description = resolved[h[a].id].description]
        ELSE h[a]]

\* Lines 551-554 for the IDs of `done`
update_labels(h, table, resolved, done) ==
    [a \in 1..Len(h) |->
        IF \E id \in done : table[id] = a
        THEN LET id == CHOOSE id \in done : table[id] = a
             IN [h[a] EXCEPT !.label = resolved[id].label,
                             !.description = resolved[id].description]
        ELSE h[a]]

\* Lines 547-556: the batched label fetch, with the outcome fetched, and the
\* loop that writes the labels.  A key of the result that the table does not
\* have raises KeyError, after the keys that the loop met before it were
\* written: some of the other keys.
Resolved(fetched) ==
    /\ label_requests' = fetched.requests
    /\ resolved_label_data' = fetched.result
    /\ IF fetched.exc # ""
       THEN pc' = "raised" /\ exc' = fetched.exc /\ heap' = heap
       ELSE IF DOMAIN fetched.result \subseteq DOMAIN entities
       THEN /\ pc' = "done"
            /\ exc' = exc
            /\ heap' = update_labels(heap, entities, fetched.result,
                                     DOMAIN fetched.result)
       ELSE /\ pc' = "raised"
            /\ exc' = "KeyError"
            /\ \E done \in SomeSubsets(DOMAIN fetched.result \cap DOMAIN entities) :
                  heap' = update_labels(heap, entities, fetched.result, done)

Resolve ==
    /\ pc = "resolve"
    /\ \E answer \in TableAnswers(DOMAIN entities) :
          Resolved(get_entities_labels_and_descriptions(
                       KeysList(entities), <<answer>>, "forward"))
    /\ UNCHANGED <<entity_ids, raw_entities_data, lists, entities,
                   result_entities_with_claims, idx, calls, lang, answers, ext>>

Next == ReturnEmpty \/ FetchClaims \/ InitPlaceholder \/ ParseEntity \/ Resolve

Spec == Init /\ [][Next]_vars

-----------------------------------------------------------------------------
(* Properties of get_entities_with_claims                                   *)

\* Every claim of every claims list
AllClaims == UNION {Range(lists[l]) : l \in DOMAIN lists}

Present(a) == IF a = None THEN {} ELSE {a}

\* The entities a claim refers to: subject, property, valueEntity, and the
\* property and valueEntity of each qualifier
ClaimRefs(c) ==
    {c.subject, c.property} \cup Present(c.valueEntity)
      \cup UNION {{c.qualifiers[i].property} \cup Present(c.qualifiers[i].valueEntity) :
                    i \in 1..Len(c.qualifiers)}

\* C1: within one get_entities_with_claims call every Claim subject, Claim
\* property, Claim valueEntity, Qualifier property and Qualifier valueEntity
\* that carries an ID is the very object the table holds for that ID, and so
\* is the entry of the returned table; hence all occurrences of an ID show one
\* label and one description.
IdentitySharing ==
    /\ \A c \in AllClaims : \A a \in ClaimRefs(c) :
          /\ heap[a].id \in DOMAIN entities
          /\ entities[heap[a].id] = a
    /\ \A id \in DOMAIN result_entities_with_claims :
          /\ id \in DOMAIN entities
          /\ entities[id] = result_entities_with_claims[id]

\* C1 witness: the call returned, and the value of one claim is the subject of
\* another and shows the label the resolution step wrote
SharedEntityResolved ==
    /\ pc = "done"
    /\ \E c \in AllClaims, d \in AllClaims :
          /\ c.valueEntity # None
          /\ c.valueEntity = d.subject
          /\ c.subject # d.subject
          /\ heap[d.subject].label = "label-en"

\* C3: an object enters the heap as a placeholder (label and description
\* "UNRESOLVED"), keeps its ID, and its label and description change only in
\* the resolution step, from "UNRESOLVED", in the one step that leaves
\* "resolve" for good; no step changes them afterwards.
PlaceholderThenResolved ==
    [][/\ Len(heap') >= Len(heap)
       /\ \A a \in 1..Len(heap') :
             IF a > Len(heap)
             THEN heap'[a].label = UNRESOLVED /\ heap'[a].description = UNRESOLVED
             ELSE /\ heap'[a].id = heap[a].id
                  /\ (heap'[a].label # heap[a].label
                        \/ heap'[a].description # heap[a].description)
                       => /\ pc = "resolve"
                          /\ pc' \in {"done", "raised"}
                          /\ heap[a].label = UNRESOLVED
                          /\ heap[a].description = UNRESOLVED
       /\ pc \in {"done", "raised"} => heap' = heap]_vars

\* C3 witness: the call returned and an entity that was not requested, a
\* placeholder since its first reference, shows a resolved label
ReferencedEntityResolved ==
    /\ pc = "done"
    /\ \E a \in 1..Len(heap) :
          /\ heap[a].id \notin Range(entity_ids)
          /\ heap[a].label = "label-en"
          /\ heap[a].description = "description-en"

\* The IDs of the entities a snak, a "qualifiers" object, a statement and a
\* "claims" object refer to
SnakIds(snak) ==
    IF snak.datatype \in {"wikibase-item", "wikibase-property"} /\ snak.value # Missing
    THEN {snak.value.id} ELSE {}

QualifierIds(qualifiers) ==
    UNION {{qualifiers[i].pid}
             \cup UNION {SnakIds(qualifiers[i].snaks[j]) :
                           j \in 1..Len(qualifiers[i].snaks)} :
           i \in 1..Len(qualifiers)}

StatementIds(statement) == SnakIds(statement.mainsnak) \cup QualifierIds(statement.qualifiers)

RawIds(raw_claims) ==
    UNION {{raw_claims[g].prop_id}
             \cup UNION {StatementIds(raw_claims[g].statements[j]) :
                           j \in 1..Len(raw_claims[g].statements)} :
           g \in 1..Len(raw_claims)}

\* The label fetch was called
LabelsRequested == label_requests # <<>>

\* The requested IDs whose _parse_entity call has returned
ParsedIds ==
    IF pc \in {"resolve", "done"} \/ LabelsRequested THEN Range(entity_ids)
    ELSE IF pc \in {"parse", "raised"} THEN {entity_ids[i] : i \in 1..(idx - 1)}
    ELSE {}

\* C4: once _parse_entity has returned for an entity, the table has an entry
\* for every statement group's property ID, every wikibase-item or
\* wikibase-property main value ID, every qualifier property ID and every
\* qualifier entity value ID of its raw claims; and the IDs sent to the label
\* fetch cover the requested IDs and all of these.
ReferencesRegistered ==
    /\ \A id \in ParsedIds : RawIds(raw_claims_of(id)) \subseteq DOMAIN entities
    /\ LabelsRequested =>
          \A id \in Range(entity_ids) :
              {id} \cup RawIds(raw_claims_of(id))
                 \subseteq UNION {Range(label_requests[k]) : k \in 1..Len(label_requests)}

\* C4 witness: the label request carries a group property, a main value, the
\* qualifier properties and a qualifier value of one statement
QualifierIdsRequested ==
    /\ pc = "done"
    /\ \E id \in Range(entity_ids) :
          \E g \in 1..Len(raw_claims_of(id)) :
             /\ raw_claims_of(id)[g].statements[1].qualifiers # <<>>
             /\ {"P1", "P4", "Q2", "Q3"} \subseteq Range(label_requests[1])

\* An exception left the parse loop
ParseRaised == pc = "raised" /\ heap # <<>> /\ ~LabelsRequested

\* C5: a decode failure of a single value (a malformed time or quantity
\* payload, a failed unit-label lookup) never propagates out of
\* _parse_entity: no exception leaves the parse loop.
DecodeFailureNeverPropagates == ~ParseRaised

\* C6: after the resolution step every table entity whose ID the response
\* lacks still has label and description "UNRESOLVED", and the step raises no
\* error, whatever IDs the response holds.
ResolutionNeverRaises ==
    /\ ~(pc = "raised" /\ LabelsRequested /\ exc \in {"KeyError", "ValueError"})
    /\ pc = "done" =>
          \A id \in DOMAIN entities \ DOMAIN resolved_label_data :
              /\ heap[entities[id]].label = UNRESOLVED
              /\ heap[entities[id]].description = UNRESOLVED

\* The statements of a "claims" object, in order
RECURSIVE StatementsOf(_)
StatementsOf(raw_claims) ==
    IF raw_claims = <<>> THEN <<>>
    ELSE Head(raw_claims).statements \o StatementsOf(Tail(raw_claims))

RankOf(rank) ==
    CASE rank = "deprecated" -> DEPRECATED
      [] rank = "preferred" -> PREFERRED
      [] OTHER -> NORMAL

RECURSIVE Repeat(_, _)
Repeat(seq, n) == IF n = 0 THEN <<>> ELSE seq \o Repeat(seq, n - 1)

\* How many times entity_ids names id: how many times it is parsed
Times(id) == Cardinality({i \in 1..Len(entity_ids) : entity_ids[i] = id})

ClaimRanks(id) ==
    [i \in 1..Len(lists[heap[result_entities_with_claims[id]].claims]) |->
        lists[heap[result_entities_with_claims[id]].claims][i].rank]

ReturnedClaims(id) == lists[heap[result_entities_with_claims[id]].claims]

\* claims holds one claim per statement of id in the raw data, in raw order,
\* each with the returned entity as its subject
ClaimPerStatement(id, claims) ==
    /\ Len(claims) = Len(StatementsOf(raw_claims_of(id)))
    /\ \A i \in 1..Len(claims) :
          /\ claims[i].subject = result_entities_with_claims[id]
          /\ claims[i].rank = RankOf(StatementsOf(raw_claims_of(id))[i].rank)
          /\ claims[i].has_qualifiers
                = (StatementsOf(raw_claims_of(id))[i].qualifiers # <<>>)

\* The entities of the table that were made as property or value references
\* have no claim
ReferencesWithoutClaims ==
    \A id \in DOMAIN entities \ Range(entity_ids) :
        lists[heap[entities[id]].claims] = <<>>

\* C29: for every list of entity IDs passed to get_entities_with_claims, one
\* that repeats an ID included, the claims list of each returned entity holds
\* exactly one claim per statement of the entity in the raw data, in raw
\* order, each with that entity as subject, and the entities made only as
\* property or value references have an empty claims list
OneClaimPerStatement ==
    pc = "done" =>
        /\ \A id \in Range(entity_ids) : ClaimPerStatement(id, ReturnedClaims(id))
        /\ ReferencesWithoutClaims

-----------------------------------------------------------------------------
(* _get_or_create_unresolved_entity on one table, call by call              *)

MaxCalls == 4   \* lookups made on the table

TableIds == {"Q1", "Q2", "P1"}

\* One lookup, with its outcome r, entered in the log
Looked(op, entity_id, r) ==
    /\ heap' = r.st.heap
    /\ entities' = r.st.entities
    /\ lists' = r.st.lists
    /\ calls' = Append(calls, [op |-> op, id |-> entity_id, entity |-> r.entity,
                               table_before |-> entities, table_after |-> r.st.entities,
                               heap_before |-> Len(heap), heap_after |-> Len(r.st.heap)])

\* A call of _get_or_create_unresolved_entity (lines 240-252)
LookupEntity ==
    /\ pc = "table"
    /\ Len(calls) < MaxCalls
    /\ \E entity_id \in TableIds :
          Looked("get_or_create", entity_id,
                 _get_or_create_unresolved_entity(
                     entity_id, [heap |-> heap, entities |-> entities, lists |-> lists]))
    /\ UNCHANGED <<entity_ids, raw_entities_data, result_entities_with_claims, pc, idx,
                   exc, resolved_label_data, label_requests, lang, answers, ext>>

\* The other lookup the parser makes on the table, for an entity value
\* (lines 194-206)
LookupValue ==
    /\ pc = "table"
    /\ Len(calls) < MaxCalls
    /\ \E value_id \in TableIds :
          Looked("value", value_id,
                 snak_entity(value_id,
                             [heap |-> heap, entities |-> entities, lists |-> lists]))
    /\ UNCHANGED <<entity_ids, raw_entities_data, result_entities_with_claims, pc, idx,
                   exc, resolved_label_data, label_requests, lang, answers, ext>>

\* The table is empty, or holds the placeholder of a requested entity
InitTable ==
    /\ ExtIdle
    /\ entity_ids = <<>>
    /\ raw_entities_data = EmptyDict
    /\ \/ /\ heap = <<>>
          /\ lists = EmptyLists
          /\ entities = EmptyDict
       \/ /\ heap = <<WikidataEntity("Q1", UNRESOLVED, UNRESOLVED, 1)>>
          /\ lists = DictSet(EmptyLists, 1, <<>>)
          /\ entities = DictSet(EmptyDict, "Q1", 1)
    /\ result_entities_with_claims = EmptyDict
    /\ pc = "table"
    /\ idx = 1
    /\ exc = ""
    /\ resolved_label_data = EmptyDict
    /\ label_requests = <<>>
    /\ calls = <<>>
    /\ lang = "en"
    /\ answers = <<>>

NextTable == LookupEntity \/ LookupValue

SpecTable == InitTable /\ [][NextTable]_vars

\* C2: when _get_or_create_unresolved_entity is called twice with one ID on a
\* table, whatever lookups come in between, the second call returns the Entity
\* the first returned, leaves the table as it was and creates no object; the
\* heap never holds two placeholders of one ID.
LookupIdempotent ==
    /\ \A i \in 1..Len(calls), j \in 1..Len(calls) :
          (/\ i < j
           /\ calls[i].op = "get_or_create"
           /\ calls[j].op = "get_or_create"
           /\ calls[i].id = calls[j].id)
             => /\ calls[j].entity = calls[i].entity
                /\ calls[j].table_after = calls[j].table_before
                /\ calls[j].heap_after = calls[j].heap_before
    /\ \A a \in 1..Len(heap), b \in 1..Len(heap) : heap[a].id = heap[b].id => a = b

\* C2 witness: an ID is looked up, another lookup creates a placeholder, and
\* the first ID is looked up again
LookedUpAgain ==
    \E i \in 1..Len(calls), j \in 1..Len(calls), k \in 1..Len(calls) :
        /\ i < j
        /\ j < k
        /\ calls[i].op = "get_or_create"
        /\ calls[k].op = "get_or_create"
        /\ calls[i].id = calls[k].id
        /\ calls[i].heap_after > calls[i].heap_before
        /\ calls[j].id # calls[i].id
        /\ calls[j].heap_after > calls[j].heap_before

-----------------------------------------------------------------------------
(* The two label fetches, each as one call                                  *)

MaxChunks == 3   \* requests a fetch of the model needs at most

Langs == {"en", "fr"}

\* n IDs that run through Q1..Qm again and again
CycleIds(n, m) == [i \in 1..n |-> "Q" \o NatToStr(((i - 1) % m) + 1)]

FetchLengths ==
    {0, 1, 2} \cup {k * ChunkSize + d : k \in 1..(MaxChunks - 1), d \in {0, 1}}

\* Distinct IDs; one ID, three IDs over and over; IDs that come back in a
\* later chunk
FetchInputs ==
    {CycleIds(n, m) : n \in FetchLengths, m \in {1, 3, ChunkSize + 10, MaxChunks * ChunkSize}}

\* ceil(n / 50)
NumChunks(n) == (n + ChunkSize - 1) \div ChunkSize

\* What upstream may answer to one request of several
ChunkAnswers ==
    {Answer(FALSE, FALSE, {}, BareInfo), Answer(TRUE, FALSE, {}, BareInfo),
     Answer(TRUE, TRUE, {}, FullInfo), Answer(TRUE, TRUE, {}, BareInfo),
     Answer(TRUE, TRUE, {ForeignId}, MulInfo)}

\* The entry of a language in "labels" or "descriptions": without the key
\* "value", with an empty value, with a text
EntryKinds == {"novalue", "empty", "text"}

EntryOf(kind, text) ==
    IF kind = "novalue" THEN [has_value |-> FALSE, value |-> ""]
    ELSE IF kind = "empty" THEN Entry("")
    ELSE Entry(text)

\* Every "labels" (what = "label") or "descriptions" object over fr, mul, en
LangDicts(what) ==
    UNION {{[l \in D |-> EntryOf(kinds[l], what \o "-" \o l)] : kinds \in [D -> EntryKinds]} :
           D \in SUBSET {"fr", "mul", "en"}}

LangInfos ==
    {[has_labels |-> TRUE, labels |-> labels,
      has_descriptions |-> TRUE, descriptions |-> descriptions] :
        labels \in LangDicts("label"), descriptions \in LangDicts("description")}

\* The answers to the requests of a fetch of ids: any labels and descriptions
\* for one ID, any outcome of each request for more
FetchAnswers(ids) ==
    IF Len(ids) = 1
    THEN {<<Answer(TRUE, TRUE, {}, info)>> : info \in LangInfos}
           \cup {<<answer>> : answer \in ChunkAnswers}
    ELSE [1..NumChunks(Len(ids)) -> ChunkAnswers]

InitFetch ==
    /\ ExtIdle
    /\ entity_ids \in FetchInputs
    /\ answers \in FetchAnswers(entity_ids)
    /\ lang \in Langs
    /\ raw_entities_data = EmptyDict
    /\ heap = <<>>
    /\ lists = EmptyLists
    /\ entities = EmptyDict
    /\ result_entities_with_claims = EmptyDict
    /\ pc = "fetch"
    /\ idx = 1
    /\ exc = ""
    /\ resolved_label_data = EmptyDict
    /\ label_requests = <<>>
    /\ calls = <<>>

\* The call returned or raised, with the outcome r
Fetched(variant, r) ==
    /\ pc' = variant \o (IF r.exc = "" THEN "_returned" ELSE "_raised")
    /\ exc' = r.exc
    /\ resolved_label_data' = r.result
    /\ label_requests' = r.requests

\* wikidata/utils.py: get_entities_labels_and_descriptions(entity_ids)
OldFetch ==
    /\ pc = "fetch"
    /\ \E set_order \in {"forward", "reverse"} :
          Fetched("old", get_entities_labels_and_descriptions(entity_ids, answers,
                                                              set_order))
    /\ UNCHANGED <<entity_ids, raw_entities_data, heap, lists, entities,
                   result_entities_with_claims, idx, calls, lang, answers, ext>>

\* wikidataMCP/utils.py: get_entities_labels_and_descriptions(ids, lang)
NewFetch ==
    /\ pc = "fetch"
    /\ Fetched("new", mcp_get_entities_labels_and_descriptions(entity_ids, lang, answers))
    /\ UNCHANGED <<entity_ids, raw_entities_data, heap, lists, entities,
                   result_entities_with_claims, idx, calls, lang, answers, ext>>

NextFetch == OldFetch \/ NewFetch

SpecFetch == InitFetch /\ [][NextFetch]_vars

Returned == pc \in {"old_returned", "new_returned"}
Raised == pc \in {"old_raised", "new_raised"}

\* C7: the fetch fails with ValueError only when the ID list is empty, and for
\* a non-empty list whose requests all succeed it returns a mapping and raises
\* nothing, whatever entities the responses contain.
OnlyEmptyListFails ==
    /\ (Raised /\ exc = "ValueError") => entity_ids = <<>>
    /\ (pc # "fetch" /\ entity_ids # <<>> /\ \A k \in 1..Len(answers) : answers[k].ok)
          => Returned

\* The k-th consecutive slice of at most 50 IDs of the input
Slice(k) ==
    SubSeq(entity_ids, (k - 1) * ChunkSize + 1, Min(k * ChunkSize, Len(entity_ids)))

\* The k-th response holds no entity
EmptyResponse(k) == ~answers[k].echo /\ answers[k].ids = {}

\* C8 (amended): a fetch of n IDs issues at most ceil(n/50) requests, and
\* exactly ceil(n/50) unless a request fails or, in wikidata/utils.py, a
\* response holds no entity, which ends the call.  The k-th request is for the
\* k-th consecutive slice of at most 50 IDs: wikidataMCP/utils.py sends the
\* slice as it is, wikidata/utils.py sends each distinct ID of the slice once,
\* in some order.
SlicesRequested ==
    pc # "fetch" =>
        /\ Len(label_requests) <= NumChunks(Len(entity_ids))
        /\ \A k \in 1..Len(label_requests) :
              /\ Len(label_requests[k]) <= ChunkSize
              /\ IF pc \in {"new_returned", "new_raised"}
                 THEN label_requests[k] = Slice(k)
                 ELSE /\ Range(label_requests[k]) = Range(Slice(k))
                      /\ Cardinality(Range(label_requests[k])) = Len(label_requests[k])
        /\ Len(label_requests) < NumChunks(Len(entity_ids)) =>
              /\ Raised
              /\ Len(label_requests) >= 1
              /\ \/ ~answers[Len(label_requests)].ok
                 \/ pc = "old_raised" /\ EmptyResponse(Len(label_requests))
        /\ (\A k \in 1..Len(answers) : answers[k].ok /\ ~EmptyResponse(k))
              => Len(label_requests) = NumChunks(Len(entity_ids))

\* C8 witness: wikidata/utils.py returned after three requests, the first of
\* them shorter than its slice
ThreeRequestsDeduplicated ==
    /\ pc = "old_returned"
    /\ Len(label_requests) = 3
    /\ Len(label_requests[1]) < Len(Slice(1))

\* C8 (as stated): a fetch that returns has issued ceil(n/50) requests, the
\* consecutive slices of the input in order.
ExactSlicesRequested ==
    Returned =>
        /\ Len(label_requests) = NumChunks(Len(entity_ids))
        /\ \A k \in 1..Len(label_requests) : label_requests[k] = Slice(k)

\* The body of entity id in the last response that holds it
ResponseIds(k) == (IF answers[k].echo THEN Range(Slice(k)) ELSE {}) \cup answers[k].ids

InfoOf(id) ==
    answers[CHOOSE k \in 1..Len(answers) :
                /\ id \in ResponseIds(k)
                /\ \A later \in (k + 1)..Len(answers) : id \notin ResponseIds(later)].info

HasText(data, l) == l \in DOMAIN data /\ data[l].has_value /\ data[l].value # ""

\* The first non-empty value along requested language, mul, en; else ""
FirstText(data, language) ==
    IF HasText(data, language) THEN data[language].value
    ELSE IF HasText(data, "mul") THEN data["mul"].value
    ELSE IF HasText(data, "en") THEN data["en"].value
    ELSE ""

\* The value of the en entry, or of the mul entry when there is no en entry;
\* the default when there is neither or the entry has no value
EnThenMul(data, default) ==
    IF "en" \in DOMAIN data
    THEN (IF data["en"].has_value THEN data["en"].value ELSE default)
    ELSE IF "mul" \in DOMAIN data
    THEN (IF data["mul"].has_value THEN data["mul"].value ELSE default)
    ELSE default

\* C9 (amended): for every entity of the response, wikidataMCP/utils.py takes
\* the label, and likewise the description, from the first language of the
\* chain requested language, mul, en whose entry has a non-empty value, and
\* the empty string when there is none; wikidata/utils.py has no requested
\* language and takes them from the en entry, or from the mul entry when there
\* is no en entry, and otherwise leaves the label equal to the entity ID and
\* the description empty.
LanguageFallback ==
    /\ pc = "new_returned" =>
          \A id \in DOMAIN resolved_label_data :
              /\ resolved_label_data[id].label = FirstText(InfoOf(id).labels, lang)
              /\ resolved_label_data[id].description
                     = FirstText(InfoOf(id).descriptions, lang)
    /\ pc = "old_returned" =>
          \A id \in DOMAIN resolved_label_data :
              /\ resolved_label_data[id].label =
                     (IF InfoOf(id).has_labels THEN EnThenMul(InfoOf(id).labels, id)
                      ELSE id)
              /\ resolved_label_data[id].description =
                     (IF InfoOf(id).has_descriptions
                      THEN EnThenMul(InfoOf(id).descriptions, "")
                      ELSE "")

\* C9 witness: fr was requested, the fr label is there but empty, and the
\* label is the one of mul
EmptyLabelSkipped ==
    /\ pc = "new_returned"
    /\ lang = "fr"
    /\ "Q1" \in DOMAIN resolved_label_data
    /\ "fr" \in DOMAIN answers[1].info.labels
    /\ resolved_label_data["Q1"].label = "label-mul"
    /\ resolved_label_data["Q1"].description = ""

\* The value of the first language of the chain that data has; else ""
FirstPresent(data, language) ==
    IF language \in DOMAIN data THEN data[language].value
    ELSE IF "mul" \in DOMAIN data THEN data["mul"].value
    ELSE IF "en" \in DOMAIN data THEN data["en"].value
    ELSE ""

\* C9 (as stated): the label and the description of every entity of the
\* response are those of the first language of requested language, mul, en
\* that the response has, and empty when it has none of them; the requested
\* language of wikidata/utils.py is en.
FirstPresentLanguage ==
    Returned =>
        \A id \in DOMAIN resolved_label_data :
            /\ resolved_label_data[id].label =
                   FirstPresent(InfoOf(id).labels, IF pc = "new_returned" THEN lang ELSE "en")
            /\ resolved_label_data[id].description =
                   FirstPresent(InfoOf(id).descriptions,
                                IF pc = "new_returned" THEN lang ELSE "en")

-----------------------------------------------------------------------------
(* wikidata/utils.py: the value of a claim and of a qualifier, for every    *)
(* datatype and raw value (SpecClaim)                                       *)

EmptyStringSnak == [datatype |-> "string", value |-> [k |-> "str", s |-> ""]]
MonolingualSnak(keys, text, language) ==
    [datatype |-> "monolingualtext",
     value |-> [k |-> "text", keys |-> keys, text |-> text, language |-> language]]
IdSnak(datatype, keys, id) ==
    [datatype |-> datatype, value |-> [k |-> "entity", keys |-> keys, id |-> id]]
CoordinateSnak(keys, latitude, longitude, repr) ==
    [datatype |-> "globe-coordinate",
     value |-> [k |-> "coordinate", keys |-> keys, latitude |-> latitude,
                longitude |-> longitude, repr |-> repr]]
\* A datatype that _parse_snak_value has no branch for; repr is f"{value}"
OtherSnak(datatype, repr) ==
    [datatype |-> datatype, value |-> [k |-> "other", repr |-> repr]]

\* One raw value or more of every branch of _parse_snak_value
SnakValues ==
    {ItemSnak("Q2"), PropertySnak("P1"), NoValueSnak, StringSnak, EmptyStringSnak,
     MonolingualSnak({"text", "language"}, "bonjour", "fr"),
     MonolingualSnak({}, "", ""),
     PlainQuantity, MetreQuantity, YearTime, MalformedTime,
     IdSnak("wikibase-sense", {"id"}, "L1-S1"), IdSnak("wikibase-lexeme", {}, ""),
     IdSnak("entity-schema", {"id"}, ""),
     CoordinateSnak({"latitude", "longitude"}, 36000, -18000, "{}"),
     OtherSnak("url", "http://example.org"), OtherSnak("external-id", "")}

\* Every value as the main value of a statement and as its one qualifier
ValueStatements ==
    {Statement("normal", v, <<>>) : v \in SnakValues}
      \cup {Statement("normal", ItemSnak("Q2"), <<[pid |-> "P4", snaks |-> <<v>>]>>) :
              v \in SnakValues}

ValueData(ids) ==
    {[id \in Range(ids) |-> ClaimsOf(<<stmt>>, "one")] : stmt \in ValueStatements}

InitClaim ==
    /\ ExtIdle
    /\ entity_ids \in BoundedSeq({"Q1"}, 1)
    /\ raw_entities_data \in ValueData(entity_ids)
    /\ heap = <<>>
    /\ lists = EmptyLists
    /\ entities = EmptyDict
    /\ result_entities_with_claims = EmptyDict
    /\ pc = "start"
    /\ idx = 1
    /\ exc = ""
    /\ resolved_label_data = EmptyDict
    /\ label_requests = <<>>
    /\ calls = <<>>
    /\ lang = "en"
    /\ answers = <<>>

SpecClaim == InitClaim /\ [][Next]_vars

\* The value of a claim or of a qualifier is an entity or a non-empty literal
OneValueSet(v) ==
    \/ v.valueEntity # None /\ v.valueString = ""
    \/ v.valueEntity = None /\ v.valueString # ""

\* C11: every claim and every qualifier the parser builds has exactly one of
\* valueEntity / valueString set: an entity and the empty string, or None and a
\* non-empty literal, whatever the datatype and the raw value
ExactlyOneValueSet ==
    \A c \in AllClaims :
        /\ OneValueSet(c)
        /\ \A i \in 1..Len(c.qualifiers) : OneValueSet(c.qualifiers[i])

-----------------------------------------------------------------------------
(* wikidataMCP/utils.py: get_triplet_values, get_hierarchy_data             *)
(* The triplet service is not part of the repository.  It holds, for an ID  *)
(* it knows, an object with a label and the values of P31 and P279; a       *)
(* response for several IDs is a dict of the known ones, a response for one *)
(* ID is the object itself (line 341 wraps it), which has no 'claims' when  *)
(* the ID is unknown.  A value without 'QID' and 'PID' has the ID NoneId.   *)

NoneId == "<None>"

\* The main variables that get_hierarchy_data leaves alone
main_idle == <<entity_ids, raw_entities_data, heap, lists, entities,
               result_entities_with_claims, idx, resolved_label_data,
               label_requests, calls, lang, answers, pair>>

MainIdle ==
    /\ PairIdle
    /\ entity_ids = <<>>
    /\ raw_entities_data = EmptyDict
    /\ heap = <<>>
    /\ lists = (DefaultClaims :> <<>>)
    /\ entities = EmptyDict
    /\ result_entities_with_claims = EmptyDict
    /\ idx = 1
    /\ resolved_label_data = EmptyDict
    /\ label_requests = <<>>
    /\ calls = <<>>
    /\ lang = "en"
    /\ answers = <<>>

\* An object of the service for a known ID, and the body for an unknown one
\* `shown` is the 'label' of the value entries for the ID in the claims of other
\* entities ("" when an entry has no 'label')
Known(label, instanceof, subclassof) ==
    [has_claims |-> TRUE, label |-> label, instanceof |-> instanceof,
     subclassof |-> subclassof, shown |-> label]
Unknown ==
    [has_claims |-> FALSE, label |-> "", instanceof |-> <<>>, subclassof |-> <<>>,
     shown |-> ""]

\* The object, listed without a label in the values of other entities
Unlabelled(object) == [object EXCEPT !.shown = ""]

\* Lines 321-343.  ids is [is_list, ids]: a list (the first call, [qid]) or a
\* set (line 404); ok is the outcome of raise_for_status().  The result is
\* [exc, sent, info]; ids[0] of a set raises TypeError.
get_triplet_values(ids, ok) ==
    IF ids.ids = {} THEN [exc |-> "", sent |-> FALSE, info |-> EmptyDict]
    ELSE IF ~ok THEN [exc |-> "RequestException", sent |-> TRUE, info |-> EmptyDict]
    ELSE IF Cardinality(ids.ids) = 1
    THEN (IF ids.is_list
          THEN [exc |-> "", sent |-> TRUE, info |-> [id \in ids.ids |-> triplets[id]]]
          ELSE [exc |-> "TypeError", sent |-> TRUE, info |-> EmptyDict])
    ELSE [exc |-> "", sent |-> TRUE,
          info |-> [id \in {id \in ids.ids : triplets[id].has_claims} |-> triplets[id]]]

\* The loop of lines 371-402 raises KeyError at current_data[qid]['claims']
claims_missing(current_data) ==
    \E id \in DOMAIN current_data : ~current_data[id].has_claims

\* Lines 388-391: the records of the IDs of the frontier that have data
new_records(current_data) ==
    [id \in DOMAIN current_data |->
        [instanceof |-> current_data[id].instanceof,
         subclassof |-> current_data[id].subclassof,
         has_label |-> FALSE, label |-> ""]]

\* Lines 393-395 without set(subclassof_qids)
instanceof_qids_only(current_data) ==
    UNION {Range(current_data[id].instanceof) : id \in DOMAIN current_data}

\* Lines 393-395
new_qids(current_data) ==
    UNION {Range(current_data[id].instanceof) \cup Range(current_data[id].subclassof) :
             id \in DOMAIN current_data}

\* The orders in which a for loop may visit the elements of S
Orders(S) == {order \in [1..Cardinality(S) -> S] : Range(order) = S}

\* The values of the entity id of the response that carry an ID
values_of(current_data, id) ==
    (Range(current_data[id].instanceof) \cup Range(current_data[id].subclassof))
        \ {NoneId}

\* The label written last for id when the loop of line 371 visits the entities
\* in `order`: the iteration of an entity writes the labels of its values
\* (lines 397-401) and then its own (line 402)
last_label(current_data, order, id) ==
    LET writers == {k \in 1..Len(order) :
                       order[k] = id \/ id \in values_of(current_data, order[k])}
        last == CHOOSE k \in writers : \A j \in writers : j <= k
    IN IF order[last] = id THEN current_data[id].label
       ELSE IF id \in DOMAIN triplets THEN triplets[id].shown
       ELSE ""

\* Lines 397-402: the labels of the values and of the entities themselves
new_labels(current_data, order) ==
    [id \in (new_qids(current_data) \ {NoneId}) \cup DOMAIN current_data |->
        last_label(current_data, order, id)]

\* Line 404
next_frontier(candidates, visited) == (candidates \ visited) \ {NoneId}

\* Line 405 without the increment
same_level(l) == l

\* Line 405
next_level(l) == l + 1

\* f overridden by g
Updated(f, g) ==
    [k \in DOMAIN f \cup DOMAIN g |-> IF k \in DOMAIN g THEN g[k] ELSE f[k]]

RECURSIVE SetToSeq(_)
SetToSeq(S) ==
    IF S = {} THEN <<>>
    ELSE LET x == CHOOSE x \in S : TRUE IN <<x>> \o SetToSeq(S \ {x})

MaxDepth == 3   \* largest max_depth asked for

Nodes == {"Q1", "Q2", "Q3", "Q4", "Q5"}

\* The value lists of a property: none, one, or two values
OneOrTwo(S) == {<<>>} \cup {<<a>> : a \in S} \cup {p \in S \X S : p[1] # p[2]}

\* What the service may hold for the root, for an inner node and for the last
RootObjects ==
    {Unknown, Unlabelled(Known("root", <<"Q2", "Q3">>, <<>>))}
      \cup {Known("root", i, s) : i \in OneOrTwo({"Q1", "Q2", "Q3"}),
                                  s \in {<<>>, <<NoneId>>, <<"Q2">>}}
InnerObjects(id) ==
    {Unknown, Unlabelled(Known("label-" \o id, <<"Q3">>, <<>>))} \cup {Known("label-" \o id, i, <<>>) : i \in OneOrTwo({"Q2", "Q3", "Q4"})}
        \cup {Known("label-" \o id, <<>>, <<"Q1">>),
              Known("label-" \o id, <<"Q4", "Q5">>, <<>>)}
LastObjects ==
    {Unknown, Known("last", <<>>, <<>>), Known("last", <<"Q4">>, <<>>),
     Known("last", <<"Q2">>, <<"Q4">>)}
FifthObjects == {Unknown, Known("fifth", <<>>, <<"Q4">>)}

Graphs ==
    {[id \in Nodes |-> CASE id = "Q1" -> r [] id = "Q2" -> a [] id = "Q3" -> b
                         [] id = "Q4" -> c [] OTHER -> d] :
        r \in RootObjects, a \in InnerObjects("Q2"), b \in InnerObjects("Q3"),
        c \in LastObjects, d \in FifthObjects}

\* Lines 359-362
InitHier ==
    /\ MainIdle
    /\ pc = "loop"
    /\ exc = ""
    /\ qid = "Q1"
    /\ max_depth \in -1..MaxDepth
    /\ triplets \in Graphs
    /\ qids = [is_list |-> TRUE, ids |-> {qid}]
    /\ level = 0
    /\ hierarchical_data = EmptyDict
    /\ label_data = EmptyDict
    /\ fetch_log = <<>>
    /\ write_log = <<>>
    /\ rendered = <<>>
    /\ CallIdle

\* Lines 371-405 for the response current_data
Level(current_data) ==
    /\ hierarchical_data' = Updated(hierarchical_data, new_records(current_data))
    /\ write_log' = write_log \o SetToSeq(DOMAIN current_data)
    /\ \E order \in Orders(DOMAIN current_data) :
          label_data' = Updated(label_data, new_labels(current_data, order))
    /\ qids' = [is_list |-> FALSE,
                ids |-> next_frontier(new_qids(current_data),
                                      DOMAIN hierarchical_data \cup DOMAIN current_data)]
    /\ level' = next_level(level)

\* Lines 364-405: one iteration of the while loop, whose fetch has the
\* outcome r
Fetch(r) ==
    /\ fetch_log' = IF r.sent THEN Append(fetch_log, qids.ids) ELSE fetch_log
    /\ IF r.exc # ""
       THEN /\ pc' = "raised" /\ exc' = r.exc
            /\ UNCHANGED <<hierarchical_data, write_log, label_data, qids, level>>
       ELSE IF claims_missing(r.info)
       THEN /\ pc' = "raised" /\ exc' = "KeyError"
            /\ UNCHANGED <<hierarchical_data, write_log, label_data, qids, level>>
       ELSE /\ pc' = pc /\ exc' = exc
            /\ Level(r.info)

FetchLevel ==
    /\ pc = "loop"
    /\ qids.ids # {} /\ level <= max_depth
    /\ \E ok \in BOOLEAN : Fetch(get_triplet_values(qids, ok))
    /\ UNCHANGED <<qid, max_depth, triplets, rendered, call, main_idle>>

\* Lines 407-412: the loop is left, the labels are written, the data returned
ReturnHierarchy ==
    /\ pc = "loop"
    /\ ~(qids.ids # {} /\ level <= max_depth)
    /\ hierarchical_data' =
           [id \in DOMAIN hierarchical_data |->
               IF id \in DOMAIN label_data
               THEN [hierarchical_data[id] EXCEPT !.has_label = TRUE,
                                                  !.label = label_data[id]]
               ELSE hierarchical_data[id]]
    /\ pc' = "returned"
    /\ UNCHANGED <<exc, qid, max_depth, qids, level, label_data, triplets,
                   fetch_log, write_log, rendered, call, main_idle>>

NextHier == FetchLevel \/ ReturnHierarchy

\* The event loop resumes the coroutine when its request has completed
SpecHier == InitHier /\ [][NextHier]_vars /\ WF_vars(NextHier)

Halted == pc \in {"returned", "raised"}

\* The frontier is empty or the level is beyond max_depth
LoopCondition == qids.ids # {} /\ level <= max_depth

RoundsBounded == Len(fetch_log) <= max_depth + 1 /\ level <= max_depth + 1

\* The values of P31 and P279 that the service holds for id
Targets(id) == Range(triplets[id].instanceof) \cup Range(triplets[id].subclassof)

\* C12: get_hierarchy_data terminates on every finite graph, cycles and
\* diamonds included: it sends at most max_depth + 1 triplet requests, sends
\* none once the frontier is empty or level > max_depth, returns only then,
\* and every run ends (returns or raises)
HierarchyTerminates ==
    /\ [](RoundsBounded /\ (pc = "returned" => ~LoopCondition))
    /\ [][~LoopCondition => fetch_log' = fetch_log]_vars
    /\ <>Halted

\* A run over two nodes that are each other's ancestor has returned, after
\* the request for the root and the one for the cycle
CycleTraversed ==
    /\ pc = "returned"
    /\ Len(fetch_log) = 2
    /\ \E a, b \in DOMAIN hierarchical_data :
          a # b /\ a # qid /\ b # qid /\ b \in Targets(a) /\ a \in Targets(b)

\* The rounds whose request asked for id
RoundsOf(id) == {k \in 1..Len(fetch_log) : id \in fetch_log[k]}

\* C13: during get_hierarchy_data no ID is in the frontier of more than one
\* level (its claims are requested at most once) and its record is written at
\* most once, also when the service has no data for it
FinalizedOnce ==
    \A id \in Nodes :
        /\ Cardinality(RoundsOf(id)) <= 1
        /\ Cardinality({k \in 1..Len(write_log) : write_log[k] = id}) <= 1

\* C26: for every graph and every max_depth >= 0, get_hierarchy_data raises
\* nothing when every request of the triplet service succeeds, also when the
\* frontier after the root level holds exactly one ID
HierarchyRaisesOnlyOnTransport ==
    (max_depth >= 0 /\ pc = "raised") => exc = "RequestException"

\* C28: every record of the map that get_hierarchy_data returns has the fields
\* 'instanceof', 'subclassof' and 'label', and the label is the one of the
\* node's own object in the response that held it, not a label of a value
\* entry for the node in the claims of another entity
OwnLabels ==
    pc = "returned"
      => \A id \in DOMAIN hierarchical_data :
            /\ hierarchical_data[id].has_label
            /\ hierarchical_data[id].label = triplets[id].label

-----------------------------------------------------------------------------
(* wikidataMCP/utils.py: hierarchy_to_json                                  *)
(* data is a map as get_hierarchy_data returns it: id -> [instanceof,       *)
(* subclassof, has_label, label].  The value built is a leaf                *)
(* [leaf |-> TRUE, key] for the string, and [leaf |-> FALSE, key, instanceof,*)
(* subclassof] for the dict with the one key `key`.                         *)

\* The elements of seq that are in S, in their order
RECURSIVE Filter(_, _)
Filter(seq, S) ==
    IF seq = <<>> THEN <<>>
    ELSE (IF Head(seq) \in S THEN <<Head(seq)>> ELSE <<>>) \o Filter(Tail(seq), S)

\* f"{data[qid]['label']} ({qid})"
node_key(id, data) == data[id].label \o " (" \o id \o ")"

\* The test that lets the level reach -1
level_below_zero(l) == l < 0

\* Line 415
level_reached(l) == l <= 0

\* Lines 414-431, for a qid that is a key of data
RECURSIVE json_of(_, _, _)
json_of(id, data, l) ==
    IF level_reached(l) THEN [leaf |-> TRUE, key |-> node_key(id, data)]
    ELSE [leaf |-> FALSE,
          key |-> node_key(id, data),
          instanceof |-> [i \in 1..Len(Filter(data[id].instanceof, DOMAIN data)) |->
                             json_of(Filter(data[id].instanceof, DOMAIN data)[i],
                                     data, l - 1)],
          subclassof |-> [i \in 1..Len(Filter(data[id].subclassof, DOMAIN data)) |->
                             json_of(Filter(data[id].subclassof, DOMAIN data)[i],
                                     data, l - 1)]]

\* data[qid] raises KeyError for a qid that data lacks
hierarchy_to_json(id, data, l) ==
    IF id \notin DOMAIN data THEN [exc |-> "KeyError", json |-> <<>>]
    ELSE [exc |-> "", json |-> json_of(id, data, l)]

MaxLevel == 3   \* largest level a rendering is asked for

AbsentId == "Q9"

Record(label, instanceof, subclassof) ==
    [instanceof |-> instanceof, subclassof |-> subclassof, has_label |-> TRUE,
     label |-> label]

\* The records a data map may hold for Q1, Q2 and Q3
FirstRecords ==
    {Record("first", i, s) : i \in OneOrTwo({"Q1", "Q2", AbsentId}),
                             s \in {<<>>, <<"Q3">>, <<AbsentId>>, <<NoneId>>}}
SecondRecords == {Record("second", i, <<>>) : i \in OneOrTwo({"Q1", "Q2", "Q3"})}
ThirdRecords ==
    {Record("third", <<>>, <<>>), Record("third", <<"Q1">>, <<>>),
     Record("third", <<>>, <<"Q3">>)}

\* A map with any of the three keys, the others left out
DataMaps ==
    {[id \in keys |-> CASE id = "Q1" -> a [] id = "Q2" -> b [] OTHER -> c] :
        keys \in SUBSET {"Q1", "Q2", "Q3"},
        a \in FirstRecords, b \in SecondRecords, c \in ThirdRecords}

InitJson ==
    /\ MainIdle
    /\ pc = "render"
    /\ exc = ""
    /\ qid = "Q1"
    /\ max_depth = 0
    /\ qids = <<>>
    /\ level \in -1..MaxLevel
    /\ hierarchical_data \in DataMaps
    /\ label_data = <<>>
    /\ triplets = <<>>
    /\ fetch_log = <<>>
    /\ write_log = <<>>
    /\ rendered = <<>>
    /\ CallIdle

\* The call hierarchy_to_json(qid, hierarchical_data, level)
Render ==
    /\ pc = "render"
    /\ rendered' = hierarchy_to_json(qid, hierarchical_data, level)
    /\ pc' = "rendered"
    /\ UNCHANGED <<exc, hier, call, main_idle>>

NextJson == Render

SpecJson == InitJson /\ [][NextJson]_vars

Max(a, b) == IF a >= b THEN a ELSE b

\* The nesting of a value: the depth of the recursion that built it
RECURSIVE JsonDepth(_)
JsonDepth(json) ==
    IF json.leaf \/ json.instanceof \o json.subclassof = <<>> THEN 0
    ELSE 1 + (CHOOSE d \in 0..MaxLevel + 1 :
                  /\ \E c \in Range(json.instanceof \o json.subclassof) : JsonDepth(c) = d
                  /\ \A c \in Range(json.instanceof \o json.subclassof) : JsonDepth(c) <= d)

\* json is the rendering of id with l levels left: a leaf string at l <= 0,
\* else a dict whose lists hold the renderings of the children that are keys
\* of data, in order, and of no other
RECURSIVE WellRendered(_, _, _)
ChildrenRendered(list, children, l) ==
    /\ Len(list) = Len(children)
    /\ \A i \in 1..Len(children) : WellRendered(list[i], children[i], l)

WellRendered(json, id, l) ==
    /\ json.key = hierarchical_data[id].label \o " (" \o id \o ")"
    /\ json.leaf <=> l <= 0
    /\ ~json.leaf =>
          /\ ChildrenRendered(json.instanceof,
                 Filter(hierarchical_data[id].instanceof, DOMAIN hierarchical_data),
                 l - 1)
          /\ ChildrenRendered(json.subclassof,
                 Filter(hierarchical_data[id].subclassof, DOMAIN hierarchical_data),
                 l - 1)

\* C14: hierarchy_to_json(qid, data, level) of a qid that data holds ends on
\* every data map, cyclic ones included, raises nothing, nests at most level
\* deep, renders a node reached at level <= 0 as the string '<label> (<id>)',
\* and leaves a child that is not a key of data out of its parent's list
RenderingBounded ==
    (pc = "rendered" /\ qid \in DOMAIN hierarchical_data) =>
        /\ rendered.exc = ""
        /\ JsonDepth(rendered.json) <= Max(level, 0)
        /\ WellRendered(rendered.json, qid, level)

\* A map where Q1 and Q2 are each other's children and Q1 has a child that
\* is no key was rendered down to leaves
CyclicMapRendered ==
    /\ pc = "rendered"
    /\ level = MaxLevel
    /\ {"Q1", "Q2"} \subseteq DOMAIN hierarchical_data
    /\ hierarchical_data["Q1"].instanceof = <<"Q2", AbsentId>>
    /\ "Q1" \in Range(hierarchical_data["Q2"].instanceof)
    /\ JsonDepth(rendered.json) = MaxLevel

-----------------------------------------------------------------------------
(* get_instance_and_subclass_hierarchy, lines 363-375 of tools.py: the map  *)
(* that get_hierarchy_data returned is rendered with level = max_depth      *)

\* Lines 370-375, once get_hierarchy_data has returned
RenderReturned ==
    /\ pc = "returned"
    /\ IF hierarchical_data = EmptyDict \/ qid \notin DOMAIN hierarchical_data
       THEN pc' = "not_found" /\ rendered' = rendered
       ELSE /\ pc' = "rendered"
            /\ rendered' = hierarchy_to_json(qid, hierarchical_data, max_depth)
    /\ UNCHANGED <<exc, qid, max_depth, qids, level, hierarchical_data, label_data,
                   triplets, fetch_log, write_log, call, main_idle>>

NextTree == FetchLevel \/ ReturnHierarchy \/ RenderReturned

SpecTree == InitHier /\ [][NextTree]_vars

\* The IDs the service has data for
WithData == {id \in Nodes : triplets[id].has_claims}

\* The IDs at most d instance-of/subclass-of edges away from the root
RECURSIVE Within(_)
Within(d) ==
    IF d <= 0 THEN {qid}
    ELSE Within(d - 1)
           \cup (UNION {Targets(id) : id \in Within(d - 1) \cap Nodes} \ {NoneId})

\* The keys of the map are the IDs within max_depth edges of the root that the
\* service has data for, each with the values the service holds for it
KeysWithinDepth ==
    /\ DOMAIN hierarchical_data = Within(max_depth) \cap WithData
    /\ \A id \in DOMAIN hierarchical_data :
          /\ hierarchical_data[id].instanceof = triplets[id].instanceof
          /\ hierarchical_data[id].subclassof = triplets[id].subclassof

\* json, the rendering of id, has an entry for every value of id that the
\* service has data for wherever it is a dict, and so have its entries
RECURSIVE NoChildOmitted(_, _)
AllChildren(list, children) ==
    /\ Len(list) = Len(children)
    /\ \A i \in 1..Len(children) : NoChildOmitted(list[i], children[i])

NoChildOmitted(json, id) ==
    ~json.leaf =>
        /\ AllChildren(json.instanceof, Filter(triplets[id].instanceof, WithData))
        /\ AllChildren(json.subclassof, Filter(triplets[id].subclassof, WithData))

\* C27: for max_depth >= 0 the keys of the map that get_hierarchy_data returns
\* are the root and IDs at most max_depth instance-of/subclass-of edges from
\* it, every ID within that distance that the service returned data for is a
\* key, and hierarchy_to_json with level = max_depth leaves out no child with
\* data of a node it renders as a dict
HierarchyComplete ==
    /\ (max_depth >= 0 /\ pc \in {"returned", "rendered", "not_found"})
          => KeysWithinDepth
    /\ (max_depth >= 0 /\ pc = "rendered")
          => /\ rendered.exc = ""
             /\ WellRendered(rendered.json, qid, max_depth)
             /\ NoChildOmitted(rendered.json, qid)

\* A map with nodes one and two edges from the root was rendered, one of its
\* nodes having a child without data
TwoLevelsRendered ==
    /\ pc = "rendered"
    /\ max_depth = 2
    /\ \E a \in Within(1) \ Within(0), b \in Within(2) \ Within(1) :
          {a, b} \subseteq DOMAIN hierarchical_data
    /\ \E id \in DOMAIN hierarchical_data : Targets(id) \cap (Nodes \ WithData) # {}

-----------------------------------------------------------------------------
(* Calls and their outcomes.  An outcome is a value or an exception; an     *)
(* exception has a name, the classes below Exception it is an instance of,  *)
(* and its message str(e).                                                  *)

Returns(value) == [exc |-> "", classes |-> {}, message |-> "", value |-> value]
Raises(name, classes, message) ==
    [exc |-> name, classes |-> classes, message |-> message, value |-> <<>>]

\* raise_for_status() of a 4xx or 5xx response, or a failed connection
HTTPError == Raises("HTTPError", {"RequestException"}, "HTTP error")
\* response.json() of a body that is not JSON: requests' JSONDecodeError is
\* both a RequestException and a ValueError
JSONDecodeError ==
    Raises("JSONDecodeError", {"RequestException", "ValueError"},
           "Expecting value: line 1 column 1 (char 0)")
KeyError(key) == Raises("KeyError", {}, "'" \o key \o "'")
TypeError(message) == Raises("TypeError", {}, message)

\* The state of a call that is not of the label engine
CallInit ==
    /\ MainIdle
    /\ HierIdle
    /\ rendered = <<>>
    /\ pc = "call"
    /\ exc = ""
    /\ tool_result = <<>>

\* The call ends with the outcome r
Ends(r) ==
    /\ tool_result' = r
    /\ pc' = IF r.exc = "" THEN "returned" ELSE "raised"
    /\ UNCHANGED <<exc, tool, args, vector_enabled, outcomes, hier, rendered,
                   main_idle>>

-----------------------------------------------------------------------------
(* execute_sparql: wikidataMCP/utils.py, wikidata/utils.py, and the tools   *)
(* of wikidataMCP/tools.py and main.py.  A response of the endpoint is      *)
(* [status, text, json]: json is what result.json() gives for the body,     *)
(* [valid, has_results, bindings]; a binding is the value of the one        *)
(* variable ?item.  A dataframe is [columns, rows].                         *)

STACK_TRACE_MARKER == "\tat "

\* The places where sub occurs in s
Occurrences(s, sub) ==
    {k \in 1..Len(s) : k + Len(sub) - 1 <= Len(s) /\ SubSeq(s, k, k + Len(sub) - 1) = sub}

\* s.split(sub)[0]
BeforeFirst(s, sub) ==
    IF Occurrences(s, sub) = {} THEN s
    ELSE SubSeq(s, 1, (CHOOSE k \in Occurrences(s, sub) :
                           \A other \in Occurrences(s, sub) : k <= other) - 1)

\* The status check that takes every error status for a malformed query
status_error_any(response) ==
    IF response.status >= 400
    THEN Raises("ValueError", {"ValueError"},
                BeforeFirst(response.text, STACK_TRACE_MARKER))
    ELSE Returns(<<>>)

\* Lines 142-145: the status check
status_error(response) ==
    IF response.status = 400
    THEN Raises("ValueError", {"ValueError"},
                BeforeFirst(response.text, STACK_TRACE_MARKER))
    ELSE IF response.status >= 400 THEN HTTPError
    ELSE Returns(<<>>)

\* result.json()["results"]["bindings"]
result_bindings(response) ==
    IF ~response.json.valid THEN JSONDecodeError
    ELSE IF ~response.json.has_results THEN KeyError("results")
    ELSE Returns(response.json.bindings)

WD_ENTITY_PREFIX == "http://www.wikidata.org/entity/"

IsUpper(c) ==
    c \in {"A", "B", "C", "D", "E", "F", "G", "H", "I", "J", "K", "L", "M", "N",
           "O", "P", "Q", "R", "S", "T", "U", "V", "W", "X", "Y", "Z"}

\* Lines 157-162: the entity URI cut down to the ID
shorten(val) ==
    IF /\ Len(val) >= Len(WD_ENTITY_PREFIX) + 2
       /\ SubSeq(val, 1, Len(WD_ENTITY_PREFIX)) = WD_ENTITY_PREFIX
       /\ IsUpper(Char(val, Len(WD_ENTITY_PREFIX) + 1))
       /\ \A k \in Len(WD_ENTITY_PREFIX) + 2..Len(val) : IsDigit(Char(val, k))
    THEN SubSeq(val, Len(WD_ENTITY_PREFIX) + 1, Len(val))
    ELSE val

\* A cap that is one row short
head_one_short(rows, K) == SubSeq(rows, 1, Min(K, Len(rows)) - 1)

\* df.head(K) and df.iloc[:K]: the first K rows, all but the last -K for K < 0
head(rows, K) ==
    IF K >= 0 THEN SubSeq(rows, 1, Min(K, Len(rows)))
    ELSE SubSeq(rows, 1, Len(rows) + K)

\* wikidataMCP/utils.py lines 147-166: the .value columns, shortened, capped
mcp_dataframe(bindings, K) ==
    [columns |-> IF bindings = <<>> THEN <<>> ELSE <<"item">>,
     rows |-> head([k \in 1..Len(bindings) |-> <<shorten(bindings[k])>>], K)]

\* wikidata/utils.py lines 583-587: every column, capped
dataframe(bindings, K) ==
    [columns |-> IF bindings = <<>> THEN <<>> ELSE <<"item.type", "item.value">>,
     rows |-> head([k \in 1..Len(bindings) |-> <<"uri", bindings[k]>>], K)]

\* The function after the request: e is the outcome of the status check, b of
\* the decoding, df the dataframe of the bindings
sparql_outcome(e, b, df) ==
    IF e.exc # "" THEN e
    ELSE IF b.exc # "" THEN b
    ELSE Returns(df)

\* wikidataMCP/utils.py lines 122-166
mcp_execute_sparql(response, K) ==
    sparql_outcome(status_error(response), result_bindings(response),
                   mcp_dataframe(response.json.bindings, K))

\* wikidata/utils.py lines 559-587
execute_sparql(response, K) ==
    sparql_outcome(status_error(response), result_bindings(response),
                   dataframe(response.json.bindings, K))

RECURSIVE Join(_, _)
Join(seq, sep) ==
    IF seq = <<>> THEN ""
    ELSE IF Len(seq) = 1 THEN seq[1]
    ELSE seq[1] \o sep \o Join(Tail(seq), sep)

\* df.to_csv(sep=';', index=True, header=True)
RECURSIVE csv_rows(_, _)
csv_rows(rows, index) ==
    IF rows = <<>> THEN ""
    ELSE NatToStr(index) \o ";" \o Join(Head(rows), ";") \o "\n"
           \o csv_rows(Tail(rows), index + 1)

to_csv(df) ==
    IF df.columns = <<>> /\ df.rows = <<>> THEN "\"\"\n"
    ELSE ";" \o Join(df.columns, ";") \o "\n" \o csv_rows(df.rows, 0)

UNAVAILABLE == "Wikidata is currently unavailable. Please retry shortly."
UNEXPECTED == "Unexpected server error while processing the request."

\* not s.strip(), for strings of letters and spaces
IsBlank(s) == \A k \in 1..Len(s) : Char(s, k) = " "

\* tools.py lines 427-443, for the outcome r of utils.execute_sparql
sparql_text(r) ==
    IF r.exc = "" THEN Returns(to_csv(r.value))
    ELSE IF "ValueError" \in r.classes THEN Returns(r.message)
    ELSE IF "RequestException" \in r.classes THEN Returns(UNAVAILABLE)
    ELSE Returns(UNEXPECTED)

\* tools.py lines 424-443
tool_execute_sparql(sparql, K, response) ==
    IF IsBlank(sparql) THEN Returns("SPARQL query cannot be empty.")
    ELSE sparql_text(mcp_execute_sparql(response, K))

\* main.py lines 279-284, for the outcome r of utils.execute_sparql
main_sparql_text(r) ==
    IF r.exc = "" THEN Returns(to_csv(r.value))
    ELSE IF "ValueError" \in r.classes THEN Returns(r.message)
    ELSE r

main_execute_sparql(sparql, K, response) ==
    main_sparql_text(execute_sparql(response, K))

MaxRows == 5   \* bindings of a response
MaxK == 3      \* largest row cap asked for

\* Bindings of ?item: entity URIs, something else in the second place
Bindings ==
    {[k \in 1..n |-> IF k = 2 THEN "42" ELSE WD_ENTITY_PREFIX \o "Q" \o NatToStr(k)] :
        n \in 0..MaxRows}

Json(valid, has_results, bindings) ==
    [valid |-> valid, has_results |-> has_results, bindings |-> bindings]

ErrorTexts ==
    {"", "MalformedQueryException: bad token" \o STACK_TRACE_MARKER \o "org.x.Y(Z.java)"
           \o STACK_TRACE_MARKER \o "java.lang.Thread.run",
     "Bad Request"}

\* What the endpoint may answer: results, a body that is not JSON or has no
\* results, with a status that is an error or is none
Responses ==
    {[status |-> 200, text |-> "{...}", json |-> Json(TRUE, TRUE, b)] : b \in Bindings}
      \cup {[status |-> st, text |-> t, json |-> Json(FALSE, FALSE, <<>>)] :
              st \in {200, 400, 404, 429, 500}, t \in ErrorTexts}
      \cup {[status |-> st, text |-> "{}", json |-> Json(TRUE, FALSE, <<>>)] :
              st \in {200, 400}}

InitSparql ==
    /\ CallInit
    /\ tool \in {"wikidataMCP.utils.execute_sparql", "wikidata.utils.execute_sparql",
                 "wikidataMCP.tools.execute_sparql", "main.execute_sparql"}
    /\ args \in [sparql : {"SELECT ?item"}, K : -1..MaxK]
    /\ vector_enabled = FALSE
    /\ outcomes \in [response : Responses]

UtilsSparql ==
    /\ pc = "call"
    /\ tool = "wikidataMCP.utils.execute_sparql"
    /\ Ends(mcp_execute_sparql(outcomes.response, args.K))

OldUtilsSparql ==
    /\ pc = "call"
    /\ tool = "wikidata.utils.execute_sparql"
    /\ Ends(execute_sparql(outcomes.response, args.K))

ExecuteSparql ==
    /\ pc = "call"
    /\ tool = "wikidataMCP.tools.execute_sparql"
    /\ Ends(tool_execute_sparql(args.sparql, args.K, outcomes.response))

MainExecuteSparql ==
    /\ pc = "call"
    /\ tool = "main.execute_sparql"
    /\ Ends(main_execute_sparql(args.sparql, args.K, outcomes.response))

NextSparql == UtilsSparql \/ OldUtilsSparql \/ ExecuteSparql \/ MainExecuteSparql

SpecSparql == InitSparql /\ [][NextSparql]_vars

UtilsCalled ==
    /\ tool \in {"wikidataMCP.utils.execute_sparql", "wikidata.utils.execute_sparql"}
    /\ pc \in {"returned", "raised"}

\* The endpoint answered with N bindings
Answered(N) ==
    /\ outcomes.response.status < 400
    /\ outcomes.response.json.valid /\ outcomes.response.json.has_results
    /\ Len(outcomes.response.json.bindings) = N

\* The value of ?item in row k of the dataframe
ItemOf(row) == row[Len(row)]

ToolCalled ==
    /\ tool \in {"wikidataMCP.tools.execute_sparql", "main.execute_sparql"}
    /\ pc \in {"returned", "raised"}

\* The body up to its first stack-trace marker: the prefix that holds no
\* marker and is the whole body or is followed by one
UpstreamErrorText(text) ==
    CHOOSE p \in {SubSeq(text, 1, n) : n \in 0..Len(text)} :
        /\ ~Contains(p, STACK_TRACE_MARKER)
        /\ \/ p = text
           \/ /\ Len(p) + Len(STACK_TRACE_MARKER) <= Len(text)
              /\ SubSeq(text, Len(p) + 1, Len(p) + Len(STACK_TRACE_MARKER))
                     = STACK_TRACE_MARKER

\* C18: when the endpoint answers 400 the execute_sparql tool (of tools.py and
\* of main.py) raises nothing and returns the body up to the first stack-trace
\* marker; an answer of another status never makes it return that text
ErrorTextOnlyFor400 ==
    ToolCalled =>
        IF outcomes.response.status = 400
        THEN /\ pc = "returned"
             /\ tool_result.value = UpstreamErrorText(outcomes.response.text)
        ELSE pc = "returned" =>
                 tool_result.value # UpstreamErrorText(outcomes.response.text)

\* The tool of tools.py returned the error text of a 400 answer without its
\* stack trace
MalformedQueryReported ==
    /\ ToolCalled
    /\ tool = "wikidataMCP.tools.execute_sparql"
    /\ outcomes.response.status = 400
    /\ Contains(outcomes.response.text, STACK_TRACE_MARKER)
    /\ tool_result.value = "MalformedQueryException: bad token"

-----------------------------------------------------------------------------
(* wikidataMCP/tools.py: the tools.  The outcome of every upstream call of  *)
(* a tool (a function of wikidataMCP/utils.py) is drawn beforehand:         *)
(* `outcomes` holds it under the name of the call.                          *)

\* Lines 19-27.  results is the sequence of the items [id, label,
\* description] of the dict; the dash of the source is written "--"
_format_search_results(results, entity_type) ==
    IF results = <<>> THEN "No matching Wikidata " \o entity_type \o "s found."
    ELSE Join([k \in 1..Len(results) |->
                  results[k].id \o ": " \o results[k].label \o " -- "
                      \o results[k].description], "\n")

\* Lines 62-70 and 118-126: the keyword search after a RequestException of the
\* vector search, whose try has the one clause except requests.RequestException
keyword_fallback(keyword, entity_type) ==
    IF keyword.exc = "" THEN Returns(_format_search_results(keyword.value, entity_type))
    ELSE IF "RequestException" \in keyword.classes THEN Returns(UNAVAILABLE)
    ELSE keyword

\* Lines 72-82, 128-138, 169-179 and 205-215: the keyword search whose try has
\* both except clauses
keyword_search(keyword, entity_type) ==
    IF keyword.exc = "" THEN Returns(_format_search_results(keyword.value, entity_type))
    ELSE IF "RequestException" \in keyword.classes THEN Returns(UNAVAILABLE)
    ELSE Returns(UNEXPECTED)

\* Lines 50-84 and 105-140 (VECTOR_ENABLED), 166-181 and 203-217 (otherwise)
search_tool(query, entity_type, enabled, vector, keyword) ==
    IF IsBlank(query) THEN Returns("Query cannot be empty.")
    ELSE IF ~enabled THEN keyword_search(keyword, entity_type)
    ELSE IF vector.exc = ""
    THEN Returns(_format_search_results(vector.value, entity_type))
    ELSE IF "RequestException" \in vector.classes
    THEN keyword_fallback(keyword, entity_type)
    ELSE keyword_search(keyword, entity_type)

\* The parameters of the two functions (utils.py lines 226-230 and 300-306)
get_entities_triplets_params == {"ids", "external_ids", "all_ranks", "lang", "user_agent"}
get_triplet_values_params ==
    {"ids", "pid", "external_ids", "all_ranks", "references", "lang", "user_agent"}

\* A call with the keyword arguments `keywords` of a function with the
\* parameters `params`, whose body has the outcome r
call_with(params, keywords, r) ==
    IF keywords \subseteq params THEN r
    ELSE TypeError("got an unexpected keyword argument")

not_found(entity_id) == "Entity " \o entity_id \o " not found"

\* Lines 253-261, for the outcome r of the call
statements_text(entity_id, r) ==
    IF r.exc # ""
    THEN (IF "RequestException" \in r.classes THEN Returns(UNAVAILABLE)
          ELSE Returns(UNEXPECTED))
    ELSE IF r.value = EmptyDict \/ entity_id \notin DOMAIN r.value
    THEN Returns(not_found(entity_id))
    ELSE Returns(r.value[entity_id])

\* Lines 245-252: the call of utils.get_entities_triplets, whose body has the
\* outcome r
get_entities_triplets_call(r) ==
    call_with(get_entities_triplets_params,
              {"external_ids", "all_ranks", "qualifiers", "lang", "user_agent"}, r)

\* Lines 241-261
get_statements(entity_id, triplets_outcome) ==
    IF IsBlank(entity_id) THEN Returns("Entity ID cannot be empty.")
    ELSE statements_text(entity_id, get_entities_triplets_call(triplets_outcome))

\* utils.py lines 471-480 for one value of one claim (the values of the model
\* have no qualifiers and no references)
value_lines(entity_id, property_id, entity, claim, claim_value) ==
    entity.label \o " (" \o entity_id \o "): " \o claim.property_label \o " ("
        \o property_id \o "): " \o claim_value.value \o "\n"
        \o "  Rank: " \o claim_value.rank \o "\n"

\* The pairs (claim, value) in the order of the two loops of lines 471-472
RECURSIVE claim_values(_)
claim_values(claims) ==
    IF claims = <<>> THEN <<>>
    ELSE [k \in 1..Len(Head(claims).values) |->
             [claim |-> Head(claims), value |-> Head(claims).values[k]]]
         \o claim_values(Tail(claims))

\* str.strip() of a text that ends with newlines
RECURSIVE StripEnd(_)
StripEnd(s) ==
    IF s # "" /\ Char(s, Len(s)) = "\n" THEN StripEnd(SubSeq(s, 1, Len(s) - 1)) ELSE s

\* utils.py lines 452-500.  entity is [empty, has_label, label, claims]; the
\* outcome is the text, None (has_text FALSE), or KeyError
triplet_values_to_string(entity_id, property_id, entity) ==
    IF entity.claims = <<>> THEN Returns([has_text |-> FALSE, text |-> ""])
    ELSE IF claim_values(entity.claims) # <<>> /\ ~entity.has_label
    THEN KeyError("label")
    ELSE Returns([has_text |-> TRUE,
                  text |-> StripEnd(Join(
                      [k \in 1..Len(claim_values(entity.claims)) |->
                          value_lines(entity_id, property_id, entity,
                                      claim_values(entity.claims)[k].claim,
                                      claim_values(entity.claims)[k].value)],
                      "\n"))])

\* Lines 323-326, for the outcome t of triplet_values_to_string
statement_text(entity_id, property_id, t) ==
    IF t.exc # "" THEN t
    ELSE IF ~t.value.has_text \/ t.value.text = ""
    THEN Returns("No statement found for " \o entity_id \o " with property "
                    \o property_id)
    ELSE Returns(t.value.text)

\* Lines 311-326, for the outcome r of the call
values_text(entity_id, property_id, r) ==
    IF r.exc # ""
    THEN (IF "RequestException" \in r.classes THEN Returns(UNAVAILABLE)
          ELSE Returns(UNEXPECTED))
    ELSE IF r.value = EmptyDict \/ entity_id \notin DOMAIN r.value
    THEN Returns(not_found(entity_id))
    ELSE IF r.value[entity_id].empty THEN Returns(not_found(entity_id))
    ELSE statement_text(entity_id, property_id,
             triplet_values_to_string(entity_id, property_id, r.value[entity_id]))

\* Lines 301-310: the call of utils.get_triplet_values, whose body has the
\* outcome r
get_triplet_values_call(r) ==
    call_with(get_triplet_values_params,
              {"pid", "external_ids", "references", "all_ranks", "qualifiers", "lang",
               "user_agent"}, r)

\* Lines 295-326
get_statement_values(entity_id, property_id, values_outcome) ==
    IF IsBlank(entity_id) THEN Returns("Entity ID cannot be empty.")
    ELSE IF IsBlank(property_id) THEN Returns("Property ID cannot be empty.")
    ELSE values_text(entity_id, property_id, get_triplet_values_call(values_outcome))

\* json.dumps(result, indent=2)
RECURSIVE Spaces(_)
Spaces(n) == IF n = 0 THEN "" ELSE " " \o Spaces(n - 1)

RECURSIVE json_dumps(_, _)
json_list(items, n) ==
    IF items = <<>> THEN "[]"
    ELSE "[\n" \o Join([k \in 1..Len(items) |->
                           Spaces(n + 2) \o json_dumps(items[k], n + 2)], ",\n")
           \o "\n" \o Spaces(n) \o "]"

json_dumps(json, n) ==
    IF json.leaf THEN "\"" \o json.key \o "\""
    ELSE "{\n" \o Spaces(n + 2) \o "\"" \o json.key \o "\": {\n"
           \o Spaces(n + 4) \o "\"instance of (P31)\": "
           \o json_list(json.instanceof, n + 4) \o ",\n"
           \o Spaces(n + 4) \o "\"subclass of (P279)\": "
           \o json_list(json.subclassof, n + 4) \o "\n"
           \o Spaces(n + 2) \o "}\n" \o Spaces(n) \o "}"

\* Lines 373-377, for the outcome j of hierarchy_to_json
dumps_or_unexpected(j) ==
    IF j.exc # "" THEN Returns(UNEXPECTED) ELSE Returns(json_dumps(j.json, 0))

\* Lines 360-377, for the outcome r of get_hierarchy_data
get_instance_and_subclass_hierarchy(entity_id, depth, r) ==
    IF IsBlank(entity_id) THEN Returns("Entity ID cannot be empty.")
    ELSE IF r.exc # ""
    THEN (IF "RequestException" \in r.classes THEN Returns(UNAVAILABLE)
          ELSE Returns(UNEXPECTED))
    ELSE IF r.value = EmptyDict \/ entity_id \notin DOMAIN r.value
    THEN Returns(not_found(entity_id))
    ELSE dumps_or_unexpected(hierarchy_to_json(entity_id, r.value, depth))

Queries == {"", " ", "adams"}
EntityIds == {"", "Q1"}
PropertyIds == {" ", "P31"}

SearchResults ==
    {<<>>, <<[id |-> "Q42", label |-> "Douglas Adams", description |-> "writer"]>>}

\* What vectorsearch and keywordsearch may do: return, fail in the request
\* or in the decoding, or raise KeyError at x["id"]
SearchOutcomes ==
    {Returns(r) : r \in SearchResults} \cup {HTTPError, JSONDecodeError, KeyError("id")}

\* What the body of get_entities_triplets may do
TripletOutcomes ==
    {Returns(EmptyDict), Returns("Q1" :> "Douglas Adams (Q42): instance of (P31): human (Q5)"),
     Returns("Q2" :> "another entity"), HTTPError, JSONDecodeError}

Entity(empty, has_label, claims) ==
    [empty |-> empty, has_label |-> has_label, label |-> "Douglas Adams",
     claims |-> claims]

Occupation(values) == [property_label |-> "occupation", values |-> values]

TripletEntities ==
    {Entity(TRUE, FALSE, <<>>), Entity(FALSE, TRUE, <<>>),
     Entity(FALSE, TRUE, <<Occupation(<<>>)>>),
     Entity(FALSE, TRUE, <<Occupation(<<[value |-> "novelist (Q6625963)",
                                         rank |-> "normal"],
                                        [value |-> "writer (Q36180)",
                                         rank |-> "deprecated"]>>)>>),
     Entity(FALSE, FALSE, <<Occupation(<<[value |-> "novelist (Q6625963)",
                                          rank |-> "normal"]>>)>>)}

\* What the body of get_triplet_values may do
ValueOutcomes ==
    {Returns(EmptyDict), HTTPError, JSONDecodeError}
      \cup {Returns(id :> e) : id \in {"Q1", "Q2"}, e \in TripletEntities}

HierarchyMaps ==
    {EmptyDict,
     "Q2" :> Record("second", <<>>, <<>>),
     ("Q1" :> Record("first", <<"Q2", AbsentId>>, <<"Q1">>))
        @@ ("Q2" :> Record("second", <<"Q1">>, <<>>))}

\* What get_hierarchy_data may do: return a map, fail in a request, or raise
\* the TypeError of line 342 or the KeyError of line 376
HierarchyOutcomes ==
    {Returns(map) : map \in HierarchyMaps}
      \cup {HTTPError, JSONDecodeError, TypeError("'set' object is not subscriptable"),
            KeyError("claims")}

SearchTools == {"search_items", "search_properties"}
StatementTools == {"get_statements", "get_statement_values"}
Tools ==
    SearchTools \cup StatementTools
      \cup {"get_instance_and_subclass_hierarchy", "wikidataMCP.tools.execute_sparql"}

InitTools ==
    /\ CallInit
    /\ vector_enabled \in BOOLEAN
    /\ \/ /\ tool \in SearchTools
          /\ args \in [query : Queries]
          /\ outcomes \in [vector : SearchOutcomes, keyword : SearchOutcomes]
       \/ /\ tool = "get_statements"
          /\ args \in [entity_id : EntityIds]
          /\ outcomes \in [call : TripletOutcomes]
       \/ /\ tool = "get_statement_values"
          /\ args \in [entity_id : EntityIds, property_id : PropertyIds]
          /\ outcomes \in [call : ValueOutcomes]
       \/ /\ tool = "get_instance_and_subclass_hierarchy"
          /\ args \in [entity_id : EntityIds, max_depth : 0..2]
          /\ outcomes \in [call : HierarchyOutcomes]
       \/ /\ tool = "wikidataMCP.tools.execute_sparql"
          /\ args \in [sparql : {"", "SELECT ?item"}, K : {2}]
          /\ outcomes \in [response : Responses]

SearchItems ==
    /\ pc = "call"
    /\ tool = "search_items"
    /\ Ends(search_tool(args.query, "item", vector_enabled, outcomes.vector,
                        outcomes.keyword))

SearchProperties ==
    /\ pc = "call"
    /\ tool = "search_properties"
    /\ Ends(search_tool(args.query, "property", vector_enabled, outcomes.vector,
                        outcomes.keyword))

GetStatements ==
    /\ pc = "call"
    /\ tool = "get_statements"
    /\ Ends(get_statements(args.entity_id, outcomes.call))

GetStatementValues ==
    /\ pc = "call"
    /\ tool = "get_statement_values"
    /\ Ends(get_statement_values(args.entity_id, args.property_id, outcomes.call))

GetHierarchy ==
    /\ pc = "call"
    /\ tool = "get_instance_and_subclass_hierarchy"
    /\ Ends(get_instance_and_subclass_hierarchy(args.entity_id, args.max_depth,
                                                outcomes.call))

NextTools ==
    \/ SearchItems \/ SearchProperties \/ GetStatements \/ GetStatementValues
    \/ GetHierarchy \/ ExecuteSparql

SpecTools == InitTools /\ [][NextTools]_vars

\* The upstream calls that the tool made all failed in the request
TransportFailed ==
    \/ /\ tool \in SearchTools /\ ~IsBlank(args.query)
       /\ outcomes.keyword = HTTPError
       /\ vector_enabled => outcomes.vector = HTTPError
    \/ /\ tool = "get_statements" /\ ~IsBlank(args.entity_id)
       /\ get_entities_triplets_call(outcomes.call) = HTTPError
    \/ /\ tool = "get_statement_values"
       /\ ~IsBlank(args.entity_id) /\ ~IsBlank(args.property_id)
       /\ get_triplet_values_call(outcomes.call) = HTTPError
    \/ /\ tool = "get_instance_and_subclass_hierarchy" /\ ~IsBlank(args.entity_id)
       /\ outcomes.call = HTTPError
    \/ /\ tool = "wikidataMCP.tools.execute_sparql" /\ ~IsBlank(args.sparql)
       /\ outcomes.response.status \in {404, 429, 500}

\* C15: no tool of wikidataMCP/tools.py lets an exception out: whatever its
\* upstream calls do (return, raise RequestException, raise anything else) it
\* returns a text, and 'Wikidata is currently unavailable. Please retry
\* shortly.' when the requests failed
ToolsNeverRaise ==
    (tool \in Tools /\ pc # "call") =>
        /\ pc = "returned"
        /\ TransportFailed => tool_result.value = UNAVAILABLE

\* A statement tool was called with IDs that are not blank, and the body of
\* its upstream function returns
UpstreamReturns ==
    /\ tool \in StatementTools /\ pc # "call"
    /\ ~IsBlank(args.entity_id)
    /\ tool = "get_statement_values" => ~IsBlank(args.property_id)
    /\ outcomes.call.exc = ""

\* The upstream result is empty or has no entry for the entity
EntityAbsent ==
    \/ outcomes.call.value = EmptyDict
    \/ args.entity_id \notin DOMAIN outcomes.call.value
    \/ tool = "get_statement_values" /\ outcomes.call.value[args.entity_id].empty

\* The text of the statements of the entity that upstream returned
RenderedStatements ==
    triplet_values_to_string(args.entity_id, args.property_id,
                             outcomes.call.value[args.entity_id]).value

\* C16: when the upstream result is empty or lacks the entity, get_statements
\* and get_statement_values return 'Entity <id> not found'; when it has the
\* entity, get_statements returns its triplet text and get_statement_values
\* the rendered statements, or 'No statement found for <id> with property
\* <pid>' when there is none
NotFoundOrStatements ==
    UpstreamReturns =>
        /\ pc = "returned"
        /\ IF EntityAbsent
           THEN tool_result.value = "Entity " \o args.entity_id \o " not found"
           ELSE IF tool = "get_statements"
           THEN tool_result.value = outcomes.call.value[args.entity_id]
           ELSE outcomes.call.value[args.entity_id].has_label =>
                   tool_result.value =
                       IF RenderedStatements.has_text /\ RenderedStatements.text # ""
                       THEN RenderedStatements.text
                       ELSE "No statement found for " \o args.entity_id
                                \o " with property " \o args.property_id

-----------------------------------------------------------------------------
(* wikidata/utils.py: _time_to_text on its own (SpecTime).  args holds the  *)
(* fields the time value is made of; model = "" is a value without          *)
(* 'calendarmodel'.                                                         *)

JULIAN_URI == "http://www.wikidata.org/entity/Q1985786"

TimeFields ==
    [sign : {"+", "-"},
     year_str : {"0000", "0001", "0002", "0044", "1582", "1979", "9999", "12000"},
     month_str : {"00", "02", "03", "10", "12"},
     day_str : {"00", "05", "15", "28"},
     precision : {8, 9, 11},
     model : {JULIAN_URI, GREGORIAN_URI, ""}]

\* The value dict of a time snak with the fields f
TimeValue(f) ==
    [k |-> "time",
     keys |-> IF f.model = "" THEN {"time", "precision"} ELSE AllTimeKeys,
     time |-> f.sign \o f.year_str \o "-" \o f.month_str \o "-" \o f.day_str
                \o "T00:00:00Z",
     precision |-> f.precision,
     calendarmodel |-> f.model]

InitTime ==
    /\ CallInit
    /\ tool = "_time_to_text"
    /\ args \in TimeFields
    /\ vector_enabled = FALSE
    /\ outcomes = <<>>

TimeToText ==
    /\ pc = "call"
    /\ tool = "_time_to_text"
    /\ Ends(_time_to_text(TimeValue(args)))

NextTime == TimeToText

SpecTime == InitTime /\ [][NextTime]_vars

\* The year, and the month and day with '00' read as 1, that the time string
\* is made of
FieldYear == ParseNat(args.year_str) * (IF args.sign = "+" THEN 1 ELSE -1)
FieldMonth == IF args.month_str = "00" THEN 1 ELSE ParseNat(args.month_str)
FieldDay == IF args.day_str = "00" THEN 1 ELSE ParseNat(args.day_str)

\* The text of the date y-m-d at the precision asked for
DateText(y, m, d) == time_render(y, m, d, "00", "00", "00", args.precision).text

\* The date ten days on: the Julian date taken to the Gregorian calendar as by
\* the cutover of 1582
Converted == AddDays(FieldYear, FieldMonth, FieldDay, CutoverDays)

\* C20: _time_to_text converts the date to the Gregorian calendar exactly when
\* the calendar model of the value is Julian and the absolute year has at most
\* four digits; otherwise (Gregorian model, no model, longer year) the year,
\* month and day are the fields of the time string, '00' read as 1
ConvertedExactlyWhenJulian ==
    (tool = "_time_to_text" /\ pc = "returned") =>
        IF args.model = JULIAN_URI /\ Len(NatToStr(Abs(FieldYear))) <= 4
        THEN tool_result.text = DateText(Converted.year, Converted.month, Converted.day)
        ELSE tool_result.text = DateText(FieldYear, FieldMonth, FieldDay)

\* The running call is _time_to_text({'time': t, 'precision': p, ...}) and
\* it returned
TimeReturned(sign, year_str, month_str, day_str, precision) ==
    /\ tool = "_time_to_text"
    /\ pc = "returned"
    /\ args.sign = sign /\ args.year_str = year_str /\ args.month_str = month_str
    /\ args.day_str = day_str /\ args.precision = precision

\* The text ends with suffix
EndsWith(text, suffix) ==
    /\ Len(suffix) <= Len(text)
    /\ SubSeq(text, Len(text) - Len(suffix) + 1, Len(text)) = suffix

\* C21 as stated: at day precision a negative year is rendered as a BC date,
\* the year by its magnitude only and followed by the era 'BC'; and
\* '+1979-00-00T00:00:00Z' at precision 9 is rendered '1979 AD'
NegativeYearShownAsBC ==
    /\ (tool = "_time_to_text" /\ pc = "returned" /\ args.precision = 11
          /\ FieldYear < 0)
         => /\ ~Contains(tool_result.text, "-")
            /\ EndsWith(tool_result.text, "BC")
    /\ TimeReturned("+", "1979", "00", "00", 9) => tool_result.text = "1979 AD"

\* C21, amended: at day precision a negative year is rendered with its minus
\* sign and without an era: the text is '<day> <Mon> -<magnitude>' of the
\* fields of the time string ('-0044-03-15T00:00:00Z' gives '15 Mar -44'); the
\* era is shown at precision 9, where '+1979-00-00T00:00:00Z' gives '1979 AD'
\* and a negative year its magnitude and 'BC'
NegativeYearShownSigned ==
    /\ (tool = "_time_to_text" /\ pc = "returned" /\ args.precision = 11
          /\ FieldYear < 0)
         => /\ tool_result.text =
                  NatToStr(FieldDay) \o " " \o months[FieldMonth] \o " -"
                    \o NatToStr(Abs(FieldYear))
            /\ ~Contains(tool_result.text, "BC")
    /\ TimeReturned("-", "0044", "03", "15", 11) => tool_result.text = "15 Mar -44"
    /\ TimeReturned("+", "1979", "00", "00", 9) => tool_result.text = "1979 AD"
    /\ (tool = "_time_to_text" /\ pc = "returned" /\ args.precision = 9
          /\ FieldYear < 0)
         => tool_result.text = NatToStr(Abs(FieldYear)) \o " BC"

\* C21 witness: the Ides of March of 44 BC, in the Julian calendar, were
\* rendered at day precision
IdesOfMarchRendered ==
    /\ TimeReturned("-", "0044", "03", "15", 11)
    /\ args.model = JULIAN_URI
    /\ tool_result.text = "15 Mar -44"

\* C30: at precision 8 with a Gregorian calendar model the text is the decade
\* that contains the year, 10 * floor(|y| / 10), followed by 's AD' when
\* y > 0 and by 's BC' otherwise
DecadeContainsYear ==
    (tool = "_time_to_text" /\ pc = "returned" /\ args.precision = 8
       /\ args.model = GREGORIAN_URI)
      => tool_result.text =
             NatToStr(10 * (Abs(FieldYear) \div 10)) \o "s "
               \o (IF FieldYear > 0 THEN "AD" ELSE "BC")

-----------------------------------------------------------------------------
(* wikidata/utils.py: two get_entities_with_claims calls in one process     *)
(* (SpecPair).  The call that runs is held by the variables of Spec; the    *)
(* locals of the call that is suspended are the record `suspended`.  The    *)
(* heap and the claims lists are the memory of the process: both calls      *)
(* allocate in them, and the default claims list is one list for both.  A   *)
(* call may be suspended between any two of its steps.                      *)

\* The locals of a call that has not started
Context(ids, raw) ==
    [entity_ids |-> ids, raw_entities_data |-> raw, entities |-> EmptyDict,
     result_entities_with_claims |-> EmptyDict, pc |-> "start", idx |-> 1,
     exc |-> "", resolved_label_data |-> EmptyDict, label_requests |-> <<>>]

\* The locals of the call that is running
Running ==
    [entity_ids |-> entity_ids, raw_entities_data |-> raw_entities_data,
     entities |-> entities,
     result_entities_with_claims |-> result_entities_with_claims, pc |-> pc,
     idx |-> idx, exc |-> exc, resolved_label_data |-> resolved_label_data,
     label_requests |-> label_requests]

\* What the claims response holds for the IDs: Q1 refers to Q2 and Q3, every
\* other entity to Q1 and Q3
PairClaims(id) ==
    IF id = "Q1"
    THEN ClaimsOf(<<Statement("normal", ItemSnak("Q2"), <<>>),
                    Statement("preferred", ItemSnak("Q3"), <<>>)>>, "each")
    ELSE ClaimsOf(<<Statement("normal", ItemSnak("Q1"), <<>>),
                    Statement("normal", ItemSnak("Q3"), <<>>)>>, "one")

PairRaw(ids) == [id \in Range(ids) |-> PairClaims(id)]

FirstIds == {<<"Q1">>, <<"Q1", "Q2">>}
SecondIds == {<<>>, <<"Q1">>, <<"Q2", "Q1">>}

InitPair ==
    /\ HierIdle
    /\ rendered = <<>>
    /\ CallIdle
    /\ entity_ids \in FirstIds
    /\ raw_entities_data = PairRaw(entity_ids)
    /\ heap = <<>>
    /\ lists = EmptyLists
    /\ entities = EmptyDict
    /\ result_entities_with_claims = EmptyDict
    /\ pc = "start"
    /\ idx = 1
    /\ exc = ""
    /\ resolved_label_data = EmptyDict
    /\ label_requests = <<>>
    /\ calls = <<>>
    /\ lang = "en"
    /\ answers = <<>>
    /\ \E ids \in SecondIds : suspended = Context(ids, PairRaw(ids))
    /\ running = 1

\* The running call is suspended, or has ended, and the other call goes on
Yield ==
    /\ running \in {1, 2}
    /\ suspended.pc \notin {"done", "raised"}
    /\ entity_ids' = suspended.entity_ids
    /\ raw_entities_data' = suspended.raw_entities_data
    /\ entities' = suspended.entities
    /\ result_entities_with_claims' = suspended.result_entities_with_claims
    /\ pc' = suspended.pc
    /\ idx' = suspended.idx
    /\ exc' = suspended.exc
    /\ resolved_label_data' = suspended.resolved_label_data
    /\ label_requests' = suspended.label_requests
    /\ suspended' = Running
    /\ running' = 3 - running
    /\ UNCHANGED <<heap, lists, calls, lang, answers, hier, rendered, call>>

NextPair ==
    ReturnEmpty \/ FetchClaims \/ InitPlaceholder \/ ParseEntity \/ Resolve \/ Yield

SpecPair == InitPair /\ [][NextPair]_vars

\* The entities a call with the locals c holds in its tables
Held(c) ==
    {c.entities[id] : id \in DOMAIN c.entities}
      \cup {c.result_entities_with_claims[id] : id \in DOMAIN c.result_entities_with_claims}

\* The entities a call with the locals c can see: those of its tables and
\* those the claims of their claims lists refer to
Seen(c) ==
    Held(c) \cup UNION {ClaimRefs(cl) : cl \in UNION {Range(lists[heap[a].claims]) : a \in Held(c)}}

\* The claims lists of the entities a call returns
ResultLists(c) ==
    {heap[c.result_entities_with_claims[id]].claims : id \in DOMAIN c.result_entities_with_claims}

\* Everything the suspended call sees: its locals, its entities with their
\* labels and descriptions, and their claims lists
SuspendedView ==
    <<suspended, [a \in Seen(suspended) |-> <<heap[a], lists[heap[a].claims]>>]>>

Separate ==
    /\ Seen(Running) \cap Seen(suspended) = {}
    /\ ResultLists(Running) \cap ResultLists(suspended) = {}
    /\ DefaultClaims \notin ResultLists(Running) \cup ResultLists(suspended)
    /\ lists[DefaultClaims] = <<>>

\* C19: two get_entities_with_claims calls whose steps interleave share no
\* state that changes: the entities of their tables and of their claims are
\* different objects, the claims lists of the entities they return are
\* different lists, none of them the default list of WikidataEntity, which
\* stays empty; and no step of the running call changes the locals of the
\* suspended call, an entity it sees, or a claims list of such an entity.
CallsIsolated ==
    /\ [](running \in {1, 2} => Separate)
    /\ [][running' = running => SuspendedView' = SuspendedView]_vars

\* C19 witness: the running call returned with the label of Q1 resolved while
\* the other call, suspended after parsing, holds an entity Q1 of its own that
\* is unresolved; both hold a placeholder for Q3 with the default claims list
CallsInterleaved ==
    /\ running \in {1, 2}
    /\ pc = "done"
    /\ suspended.pc = "resolve"
    /\ "Q1" \in DOMAIN entities /\ "Q1" \in DOMAIN suspended.entities
    /\ heap[entities["Q1"]].label = "label-en"
    /\ heap[suspended.entities["Q1"]].label = UNRESOLVED
    /\ Len(lists[heap[suspended.entities["Q1"]].claims]) = 2
    /\ "Q3" \in DOMAIN entities /\ "Q3" \in DOMAIN suspended.entities
    /\ entities["Q3"] # suspended.entities["Q3"]
    /\ heap[entities["Q3"]].claims = DefaultClaims
    /\ heap[suspended.entities["Q3"]].claims = DefaultClaims

-----------------------------------------------------------------------------
(* wikidata/utils.py: _parse_snak_value on its own (SpecSnak).  args holds  *)
(* the datatype, the value, whether the table has an entry for Q2 and P1    *)
(* already, and the answer to the label request of a unit.                  *)

Datatypes ==
    {"wikibase-item", "wikibase-property", "string", "monolingualtext", "quantity",
     "time", "wikibase-sense", "wikibase-lexeme", "wikibase-form", "entity-schema",
     "globe-coordinate", "url", "<None>"}

\* A snak without a datavalue, of every datatype, and the values of SnakValues
\* and MainSnaks
SnakInputs ==
    {[datatype |-> d, value |-> Missing] : d \in Datatypes}
      \cup SnakValues \cup MainSnaks

\* The table before the call: empty, or with the entities Q2 and P1
TableBefore(known) ==
    IF known
    THEN [heap |-> <<NewPlaceholder("Q2"), NewPlaceholder("P1")>>,
          entities |-> ("Q2" :> 1) @@ ("P1" :> 2), lists |-> EmptyLists]
    ELSE [heap |-> <<>>, entities |-> EmptyDict, lists |-> EmptyLists]

InitSnak ==
    /\ CallInit
    /\ tool = "_parse_snak_value"
    /\ \E snak \in SnakInputs, known \in BOOLEAN, unit \in UnitAnswers :
          args = [datatype |-> snak.datatype, value |-> snak.value,
                  known |-> known, unit |-> unit]
    /\ vector_enabled = FALSE
    /\ outcomes = <<>>

ParseSnakValue ==
    /\ pc = "call"
    /\ tool = "_parse_snak_value"
    /\ Ends(_parse_snak_value(args.datatype, args.value, TableBefore(args.known),
                              args.unit))

NextSnak == ParseSnakValue

SpecSnak == InitSnak /\ [][NextSnak]_vars

\* The call is over
SnakCalled == tool = "_parse_snak_value" /\ pc \in {"returned", "raised"}

EntityDatatype == args.datatype \in {"wikibase-item", "wikibase-property"}

\* C24: _parse_snak_value returns an entity exactly when the value is not null
\* and the datatype is wikibase-item or wikibase-property, and it is then the
\* entry of the table for the ID of the value (the entry the table had, if it
\* had one); a null or missing value is returned as the literal
\* '<empty string>' for every datatype; for every other datatype a string is
\* returned
SnakResultKinds ==
    SnakCalled =>
        /\ pc = "returned"
        /\ tool_result.is_entity <=> (args.value # Missing /\ EntityDatatype)
        /\ args.value = Missing => tool_result.text = "<empty string>"
        /\ tool_result.is_entity
             => /\ args.value.id \in DOMAIN tool_result.st.entities
                /\ tool_result.entity = tool_result.st.entities[args.value.id]
                /\ args.known
                     => tool_result.entity = TableBefore(TRUE).entities[args.value.id]

-----------------------------------------------------------------------------
(* wikidata/utils.py: get_entities_with_claims for an entity whose first    *)
(* statement is a time value of any precision code and whose second is an   *)
(* item (SpecPrecision)                                                     *)

PrecisionCodes == {-1, 0, 11, 14, 15, 99}

TimeStrings ==
    {"+1979-05-11T00:00:00Z", "+1979-02-30T00:00:00Z", "+2000-13-01T00:00:00Z",
     "-0044-03-15T00:00:00Z", "1979"}

TimeStatements ==
    {<<Statement("normal", TimeSnak(AllTimeKeys, t, p, c), <<>>),
       Statement("normal", ItemSnak("Q2"), <<>>)>> :
        t \in TimeStrings, p \in PrecisionCodes, c \in {JULIAN_URI, GREGORIAN_URI}}

PrecisionData(ids) ==
    {[id \in Range(ids) |-> ClaimsOf(stmts, "one")] : stmts \in TimeStatements}

InitPrecision ==
    /\ ExtIdle
    /\ entity_ids \in BoundedSeq({"Q1"}, 1)
    /\ raw_entities_data \in PrecisionData(entity_ids)
    /\ heap = <<>>
    /\ lists = EmptyLists
    /\ entities = EmptyDict
    /\ result_entities_with_claims = EmptyDict
    /\ pc = "start"
    /\ idx = 1
    /\ exc = ""
    /\ resolved_label_data = EmptyDict
    /\ label_requests = <<>>
    /\ calls = <<>>
    /\ lang = "en"
    /\ answers = <<>>

SpecPrecision == InitPrecision /\ [][Next]_vars

\* The time value of the first statement of Q1
FirstTime == raw_entities_data["Q1"][1].statements[1].mainsnak.value

\* The parse loop is over
ParseOver == pc \in {"resolve", "done"} \/ (pc = "raised" /\ LabelsRequested)

\* The claims of Q1
ClaimsOfQ1 == lists[heap[result_entities_with_claims["Q1"]].claims]

\* C22: a time value whose precision code is outside 0..14 fails in
\* _time_to_text for that value only: the error does not leave the parser, the
\* value of the claim is the raw 'time' string of the payload, and the
\* statement after it is parsed
UnknownPrecisionCaught ==
    (entity_ids # <<>> /\ FirstTime.precision \notin 0..14)
      => /\ ~ParseRaised
         /\ ParseOver
              => /\ Len(ClaimsOfQ1) = 2
                 /\ ClaimsOfQ1[1].valueEntity = None
                 /\ ClaimsOfQ1[1].valueString = FirstTime.time
                 /\ ClaimsOfQ1[2].valueEntity # None
                 /\ heap[ClaimsOfQ1[2].valueEntity].id = "Q2"

-----------------------------------------------------------------------------
(* wikidata/utils.py: _quantity_to_text on its own (SpecQuantity).  args    *)
(* holds the amount, the unit, and the answer to the label request for the  *)
(* unit.                                                                    *)

\* The body of an entity with an English label and, unless description is
\* "<None>", an English description
UnitInfo(label, description) ==
    [has_labels |-> TRUE, labels |-> [l \in {"en"} |-> Entry(label)],
     has_descriptions |-> description # "<None>",
     descriptions |-> IF description = "<None>" THEN EmptyDict
                      ELSE [l \in {"en"} |-> Entry(description)]]

\* The answers that hold the requested unit, labelled
LabelledAnswers ==
    {Answer(TRUE, TRUE, {}, UnitInfo(label, description)) :
        label \in {"metre", "kilogram"},
        description \in {"<None>", "", "SI unit of length"}}

Amounts == {"+5", "-3", "+1.5", "5"}
Units == {METRE_URI, "http://www.wikidata.org/entity/Q11570", "1", ""}

InitQuantity ==
    /\ CallInit
    /\ tool = "_quantity_to_text"
    /\ args \in [amount : Amounts, unit : Units,
                 answer : LabelledAnswers \cup UnitAnswers]
    /\ vector_enabled = FALSE
    /\ outcomes = <<>>

QuantityToText ==
    /\ pc = "call"
    /\ tool = "_quantity_to_text"
    /\ Ends(_quantity_to_text(
                [k |-> "quantity", keys |-> {"amount", "unit"},
                 amount |-> args.amount, unit |-> args.unit],
                TableBefore(FALSE), args.answer))

NextQuantity == QuantityToText

SpecQuantity == InitQuantity /\ [][NextQuantity]_vars

\* s without its leading '+'
WithoutLeadingPlus(s) == IF Len(s) > 0 /\ Char(s, 1) = "+" THEN Tail(s) ELSE s

\* The ID of the unit, for the units of Units that are entity URIs
UnitId == SubSeq(args.unit, Len(ENTITY_URI) + 1, Len(args.unit))

\* C23: _quantity_to_text returns the amount without its leading '+',
\* followed, when the unit is a Wikidata entity URI, by
\* ' <unit label> (<unit id>)' and by nothing otherwise, whatever the
\* description of the unit: '+5' with the unit Q11573 labelled 'metre' gives
\* '5 metre (Q11573)'
QuantityWithUnitId ==
    (tool = "_quantity_to_text" /\ pc = "returned")
      => IF Contains(args.unit, ENTITY_URI)
         THEN args.answer \in LabelledAnswers
                => tool_result.text =
                       WithoutLeadingPlus(args.amount) \o " "
                         \o args.answer.info.labels["en"].value
                         \o " (" \o UnitId \o ")"
         ELSE tool_result.text = WithoutLeadingPlus(args.amount)

-----------------------------------------------------------------------------
(* wikidataMCP/tools.py: the search tools with VECTOR_ENABLED, one action   *)
(* per upstream call (SpecSearch).  `calls` is the log of the upstream      *)
(* calls in the order they are made.                                        *)

InitSearch ==
    /\ CallInit
    /\ tool \in SearchTools
    /\ args \in [query : Queries]
    /\ vector_enabled = TRUE
    /\ outcomes \in [vector : SearchOutcomes, keyword : SearchOutcomes]

\* "item" for search_items, "property" for search_properties
entity_type == IF tool = "search_items" THEN "item" ELSE "property"

\* The variables a step of a search tool leaves alone
search_idle == <<entity_ids, raw_entities_data, heap, lists, entities,
                 result_entities_with_claims, idx, resolved_label_data,
                 label_requests, lang, answers, pair, exc, tool, args,
                 vector_enabled, outcomes, hier, rendered>>

\* The tool goes on to the call `next`, or ends with the outcome r
Continues(next) == pc' = next /\ tool_result' = tool_result
Finishes(r) == pc' = (IF r.exc = "" THEN "returned" ELSE "raised") /\ tool_result' = r

\* Lines 50-51 and 105-106
CheckQuery ==
    /\ pc = "call"
    /\ tool \in SearchTools
    /\ IF IsBlank(args.query) THEN Finishes(Returns("Query cannot be empty."))
       ELSE Continues("vectorsearch")
    /\ UNCHANGED <<calls, search_idle>>

\* A tool that asks the keyword search whatever the vector search did
falls_back_always(vector) == TRUE

\* The vector search raised: the except clauses of lines 61 and 71 (117, 127)
\* go on to the keyword search
falls_back(vector) == vector.exc # ""

\* Lines 54-60 and 109-116: utils.vectorsearch, and line 84 (140) when it
\* returned
VectorSearch ==
    /\ pc = "vectorsearch"
    /\ calls' = Append(calls, "vectorsearch")
    /\ IF falls_back(outcomes.vector) THEN Continues("keywordsearch")
       ELSE Finishes(Returns(_format_search_results(outcomes.vector.value,
                                                    entity_type)))
    /\ UNCHANGED search_idle

\* Lines 62-70 or 72-82 (118-126 or 128-138): utils.keywordsearch in the
\* except clause that caught the exception of the vector search
KeywordSearch ==
    /\ pc = "keywordsearch"
    /\ calls' = Append(calls, "keywordsearch")
    /\ IF "RequestException" \in outcomes.vector.classes
       THEN Finishes(keyword_fallback(outcomes.keyword, entity_type))
       ELSE Finishes(keyword_search(outcomes.keyword, entity_type))
    /\ UNCHANGED search_idle

NextSearch == CheckQuery \/ VectorSearch \/ KeywordSearch

SpecSearch == InitSearch /\ [][NextSearch]_vars

\* The number of calls of the upstream function name
CallsOf(name) == Cardinality({i \in 1..Len(calls) : calls[i] = name})

\* C25: in the search tools with VECTOR_ENABLED a blank query is answered
\* 'Query cannot be empty.' with no upstream call; otherwise the vector search
\* is called first and once, the keyword search is called, once, only if the
\* vector search raised, and the result is the formatted result of the vector
\* search whenever it returned; and the steps give what search_tool gives
VectorFirstKeywordOnFailure ==
    /\ CallsOf("vectorsearch") <= 1 /\ CallsOf("keywordsearch") <= 1
    /\ calls # <<>> => calls[1] = "vectorsearch"
    /\ CallsOf("keywordsearch") = 1 => outcomes.vector.exc # ""
    /\ calls # <<>> => ~IsBlank(args.query)
    /\ pc \in {"returned", "raised"}
         => /\ IsBlank(args.query)
                 => calls = <<>> /\ tool_result = Returns("Query cannot be empty.")
            /\ ~IsBlank(args.query)
                 => /\ CallsOf("vectorsearch") = 1
                    /\ CallsOf("keywordsearch") = 1 <=> outcomes.vector.exc # ""
                    /\ outcomes.vector.exc = ""
                         => tool_result =
                              Returns(_format_search_results(outcomes.vector.value,
                                                             entity_type))
            /\ tool_result = search_tool(args.query, entity_type, TRUE,
                                         outcomes.vector, outcomes.keyword)

\* C25 witness: the vector search failed in the request, the keyword search
\* was called after it and its result is what the tool returned
KeywordAfterVector ==
    /\ pc = "returned"
    /\ calls = <<"vectorsearch", "keywordsearch">>
    /\ outcomes.vector = HTTPError
    /\ outcomes.keyword.exc = ""
    /\ outcomes.keyword.value # <<>>
    /\ tool_result.value = _format_search_results(outcomes.keyword.value, entity_type)

====
